---- MODULE Spec2Model ----
(***************************************************************************)
(* Model of the futures engine (FuturesEngine), the risk manager           *)
(* (RiskManager) and the persisted lock settings of katalama-botu.         *)
(*                                                                         *)
(* Units: money and prices are in mills (1 USD = 1000), quantities in      *)
(* thousandths of a unit, percentages in whole percent, times in clock     *)
(* ticks (TicksPerDay ticks make one local day).  All inputs are chosen    *)
(* so that every division of the source is exact in these units.  The      *)
(* calls of calculatePositionSize and kellyOptimalSize on drawn arguments  *)
(* are in whole dollars (money and prices of one call share their unit).   *)
(***************************************************************************)
EXTENDS Integers, Sequences, FiniteSets

\* ---------------------------------------------------------------- bounds
TicksPerDay == 2
MaxNow == 2
MaxOpens == 2
MaxScanRuns == 2
MaxMonRuns == 2
LockScanRuns == 1
LockMonRuns == 1
ConcOpens == 3
OverlapOpens == 1
LifeOpens == 1
MaxCount == 2
MaxRecords == 3

\* ------------------------------------------------- settings (database.js)
MaxDailyLossPct == 10
MaxPositionRiskPct == 3
MaxOpenPositions == 2
MaxMarginUsagePct == 50
MinRR10 == 25
DefaultLeverage == 2
MaxLeverage == 4
MinSignalScore == 7
TrailingActivatePct == 2
TrailingDistancePerMille == 15
PartialClosePct == 4
PartialCloseAmount == 50
InitialBalance == 100000
Coins == <<"BTC", "ETH">>

\* ------------------------------------------------------------ input sets
NoTime == -1
NoPrice == 0
NoAtr == -1
Scores == 0..10
AtrPcts == {NoAtr, 0, 100, 199, 200, 250, 300, 301, 500}
LeverageSettings == 1..5
Directions == {"long", "short"}
SltpEntries == {50000, 100000}
Atrs == {0, 1000, 2000, 4000}
MinRRs == {20, 25, 30}
SizeBalances == {100, 1000}
SizeEntries == {50000, 100000}
SizeStops == {49000, 50000, 51000, 98000, 100000, 101796}
Leverages == 1..4
RiskPcts == {1, 3}
MarginPcts == {25, 50, 75, 100}
Balances == {100000}
EntryPrice == 100000
Prices == {88000, 97000, 99000, 100000, 101000, 103000, 112000}
NoBollinger == [has |-> FALSE, lower |-> 0, upper |-> 0]
NoSig == [score |-> 0, dir |-> "none", atr |-> 0, atrPct100 |-> 0, boll |-> NoBollinger]
Signals ==
  { NoSig,
    [score |-> 5, dir |-> "long",  atr |-> 2000, atrPct100 |-> 200, boll |-> NoBollinger],
    [score |-> 7, dir |-> "long",  atr |-> 2000, atrPct100 |-> 200, boll |-> NoBollinger],
    [score |-> 7, dir |-> "short", atr |-> 2000, atrPct100 |-> 200, boll |-> NoBollinger],
    [score |-> 7, dir |-> "long",  atr |-> 0,    atrPct100 |-> 0, boll |-> NoBollinger],
    [score |-> 7, dir |-> "long",  atr |-> 2000, atrPct100 |-> 200,
     boll |-> [has |-> TRUE, lower |-> 102000, upper |-> 110000]],
    [score |-> 7, dir |-> "short", atr |-> 2000, atrPct100 |-> 200,
     boll |-> [has |-> TRUE, lower |-> 90000, upper |-> 98000]] }
Bollingers ==
  { NoBollinger,
    [has |-> TRUE, lower |-> 102000, upper |-> 110000],
    [has |-> TRUE, lower |-> 90000,  upper |-> 98000],
    [has |-> TRUE, lower |-> 96000,  upper |-> 104000] }
LockSignals ==
  { NoSig,
    [score |-> 7, dir |-> "long",  atr |-> 2000, atrPct100 |-> 200, boll |-> NoBollinger] }
UnlockPrices == {88000, 97000, 100000}
LockPrices == {88000, 100000}
OverlapPrices == {88000, 100000, 103000}
ConcSignals ==
  { NoSig,
    [score |-> 7, dir |-> "long",  atr |-> 2000, atrPct100 |-> 200, boll |-> NoBollinger] }
FullContexts ==
  [balance : {0, 50000, 100000}, margin : {0, 25000, 50000, 50001, 60000},
   rr10 : {0, 10, 24, 25, 35}]
NoFactor == -1
KellyBalances == {100, 1000}
TradeRows ==
  { t \in [total : {0, 9, 10, 12, 20}, wins : {0, 6, 9, 10}, losses : {0, 1, 10},
           profit : {0, 30, 12500, 20000}, loss : {0, 10000}] :
      /\ t.wins + t.losses <= t.total
      /\ (t.wins = 0) = (t.profit = 0)
      /\ (t.losses = 0) = (t.loss = 0) }
NoDay == -1
Outcomes == {-12000, -2000, 3000}
NoRsi == -1
NoRatio == -1
TfSignals == {"strong_buy", "sell", "neutral"}
Rsis == {NoRsi, 20, 30, 50, 70, 80}
NoMacd == [has |-> FALSE, prev |-> 0, diff |-> 0, histogram |-> 0]
Macds ==
  { NoMacd,
    [has |-> TRUE, prev |-> -1, diff |-> 1,  histogram |-> 1],
    [has |-> TRUE, prev |-> 1,  diff |-> -1, histogram |-> -1],
    [has |-> TRUE, prev |-> 1,  diff |-> 1,  histogram |-> 1],
    [has |-> TRUE, prev |-> -1, diff |-> -1, histogram |-> -1] }
NoBands == [has |-> FALSE, position |-> 0, squeeze |-> FALSE]
Bands ==
  { NoBands,
    [has |-> TRUE, position |-> 5,  squeeze |-> FALSE],
    [has |-> TRUE, position |-> 95, squeeze |-> FALSE],
    [has |-> TRUE, position |-> 50, squeeze |-> TRUE],
    [has |-> TRUE, position |-> 50, squeeze |-> FALSE] }
Emas ==
  { [ema9 |-> 0, ema21 |-> 0, ema50 |-> 0],
    [ema9 |-> 3, ema21 |-> 2, ema50 |-> 1],
    [ema9 |-> 1, ema21 |-> 2, ema50 |-> 3] }
Ratios == {NoRatio, 10, 13}
EntrySignals == {"none", "error", "strong_buy", "sell"}
Snapshots ==
  [ind1h : BOOLEAN, ind4h : BOOLEAN, sig1h : TfSignals, sig4h : TfSignals, rsi : Rsis,
   macd : Macds, bollinger : Bands, ema : Emas, ratio : Ratios, tf15m : EntrySignals]
TradeConfigs ==
  { [balance |-> 0,      margin |-> 0,     rr10 |-> 0],
    [balance |-> 100000, margin |-> 50000, rr10 |-> 35],
    [balance |-> 100000, margin |-> 60000, rr10 |-> 35],
    [balance |-> 100000, margin |-> 50000, rr10 |-> 20] }

VARIABLES
  now,          \* wall clock
  db,           \* persisted settings: bot.locked, bot.lock_until, risk_events rows
  rm,           \* RiskManager fields
  eng,          \* FuturesEngine scalar fields and interval timers
  positions,    \* FuturesEngine.positions: symbol -> position object id (0 = absent)
  posOrder,     \* insertion order of the keys of FuturesEngine.positions
  objs,         \* position objects by id
  nextId,       \* number of position objects created so far + 1
  scans,        \* scanSignals invocations in progress
  mons,         \* monitorPositions invocations in progress
  trip,         \* expiry of the latest breaker trip by recordPnL not manually unlocked
  call          \* an analyzeOnly request in progress, or a function applied to its arguments

vars == <<now, db, rm, eng, positions, posOrder, objs, nextId, scans, mons, trip, call>>

\* ----------------------------------------------------------------- clock
Day(t) == t \div TicksPerDay

\* lockBot: tomorrow = new Date(); setDate(+1); setHours(0,0,0,0)
NextMidnight(t) == (Day(t) + 1) * TicksPerDay

Min(a, b) == IF a < b THEN a ELSE b
Max(a, b) == IF a > b THEN a ELSE b
Abs(a) == IF a < 0 THEN -a ELSE a

\* ------------------------------------------------------------ RiskManager
NewRiskManager(t) == [dailyPnL |-> 0, currentDay |-> Day(t)]

\* lockBot without setDate(getDate() + 1): the expiry is today's midnight
lockBot_Today(d, t) ==
  [d EXCEPT !.locked = TRUE, !.lockUntil = Day(t) * TicksPerDay, !.riskEvents = @ + 1]

lockBot(d, t) ==
  [d EXCEPT !.locked = TRUE, !.lockUntil = NextMidnight(t), !.riskEvents = @ + 1]

\* the expiry test shared by checkDayReset and scanSignals
ExpireLock(d, t) ==
  IF d.locked /\ d.lockUntil # NoTime /\ d.lockUntil <= t
  THEN [d EXCEPT !.locked = FALSE, !.lockUntil = NoTime]
  ELSE d

checkDayReset(r, d, t) ==
  IF Day(t) # r.currentDay
  THEN [rm |-> [r EXCEPT !.dailyPnL = 0, !.currentDay = Day(t)],
        db |-> ExpireLock(d, t)]
  ELSE [rm |-> r, db |-> d]

\* canTrade without the bot.locked test
canTrade_NoLockTest(r, d, t, cfg) ==
  LET cd == checkDayReset(r, d, t)
      balance == IF cfg.balance # 0 THEN cfg.balance ELSE InitialBalance
  IN  IF cd.rm.dailyPnL * 100 < -(balance * MaxDailyLossPct)
      THEN [ok |-> FALSE, rm |-> cd.rm, db |-> lockBot(cd.db, t)]
      ELSE IF cfg.margin # 0 /\ cfg.balance # 0
              /\ cfg.margin * 100 > cfg.balance * MaxMarginUsagePct
      THEN [ok |-> FALSE, rm |-> cd.rm, db |-> cd.db]
      ELSE IF cfg.rr10 # 0 /\ cfg.rr10 < MinRR10
      THEN [ok |-> FALSE, rm |-> cd.rm, db |-> cd.db]
      ELSE [ok |-> TRUE, rm |-> cd.rm, db |-> cd.db]

canTrade(r, d, t, cfg) ==
  LET cd == checkDayReset(r, d, t)
      balance == IF cfg.balance # 0 THEN cfg.balance ELSE InitialBalance
  IN  IF cd.db.locked
      THEN [ok |-> FALSE, rm |-> cd.rm, db |-> cd.db]
      ELSE IF cd.rm.dailyPnL * 100 < -(balance * MaxDailyLossPct)
      THEN [ok |-> FALSE, rm |-> cd.rm, db |-> lockBot(cd.db, t)]
      ELSE IF cfg.margin # 0 /\ cfg.balance # 0
              /\ cfg.margin * 100 > cfg.balance * MaxMarginUsagePct
      THEN [ok |-> FALSE, rm |-> cd.rm, db |-> cd.db]
      ELSE IF cfg.rr10 # 0 /\ cfg.rr10 < MinRR10
      THEN [ok |-> FALSE, rm |-> cd.rm, db |-> cd.db]
      ELSE [ok |-> TRUE, rm |-> cd.rm, db |-> cd.db]

Breaches(pnl) == pnl * 100 < -(InitialBalance * MaxDailyLossPct)

recordPnL(r, d, t, pnl) ==
  LET r1 == [r EXCEPT !.dailyPnL = @ + pnl]
  IN  [rm |-> r1, db |-> IF Breaches(r1.dailyPnL) THEN lockBot(d, t) ELSE d]

unlockBot(r, d) ==
  [rm |-> [r EXCEPT !.dailyPnL = 0],
   db |-> [d EXCEPT !.locked = FALSE, !.lockUntil = NoTime]]

\* Number.prototype.toFixed on a / b with b > 0: the nearest whole number
RoundDiv(a, b) == (2 * a + b) \div (2 * b)

\* getTradeStats on the filled rows of the trades table: their number, the
\* rows with pnl > 0 and < 0 and the sums of the positive and of the negative
\* pnl (loss is the absolute value).  winRate is a string with one decimal
\* (here tenths of a percent), profitFactor one with two decimals (here
\* hundredths) or 'N/A' (NoFactor)
getTradeStats(t) ==
  [totalTrades |-> t.total,
   winRate |-> IF t.total > 0 THEN RoundDiv(t.wins * 1000, t.total) ELSE 0,
   profitFactor |-> IF t.loss # 0 THEN RoundDiv(t.profit * 100, t.loss) ELSE NoFactor]

\* kellyOptimalSize on the trade statistics of the database; winRate is in
\* thousandths and profitFactor in hundredths after parseFloat(..) || default
kellyOptimalSize(balance, t) ==
  LET stats == getTradeStats(t)
      winRate == IF stats.winRate = 0 THEN 500 ELSE stats.winRate
      profitFactor == IF stats.profitFactor = NoFactor \/ stats.profitFactor = 0
                      THEN 100 ELSE stats.profitFactor
      \* kelly / 2 = num / den
      num == winRate * profitFactor - 100 * (1000 - winRate)
      den == 2000 * profitFactor
  IN  IF profitFactor <= 0 \/ stats.totalTrades < 10 THEN (balance * 3) \div 100
      ELSE IF num <= 0 THEN 0
      ELSE IF num * 10 >= den THEN balance \div 10
      ELSE (balance * num) \div den

NoConfig == [balance |-> 0, margin |-> 0, rr10 |-> 0]

\* ------------------------------------------- FuturesEngine: pure functions
\* determineLeverage without the atrPct !== null tests (null < 2 is true)
determineLeverageWith_NoNullTest(score, atrPct, maxLeverage, defaultLeverage) ==
  IF score >= 9 /\ atrPct < 200
  THEN [leverage |-> Min(4, maxLeverage), tier |-> "boost"]
  ELSE IF atrPct > 300
  THEN [leverage |-> 2, tier |-> "floor"]
  ELSE [leverage |-> defaultLeverage, tier |-> "default"]

\* determineLeverage with the two settings it reads as arguments; atrPct is
\* in hundredths of a percent, NoAtr stands for null
determineLeverageWith(score, atrPct, maxLeverage, defaultLeverage) ==
  IF score >= 9 /\ atrPct # NoAtr /\ atrPct < 200
  THEN [leverage |-> Min(4, maxLeverage), tier |-> "boost"]
  ELSE IF atrPct # NoAtr /\ atrPct > 300
  THEN [leverage |-> 2, tier |-> "floor"]
  ELSE [leverage |-> defaultLeverage, tier |-> "default"]

\* as called by openPosition and analyzeOnly: atrPct || null, default settings
determineLeverage(score, atrPct100) ==
  determineLeverageWith(score, IF atrPct100 = 0 THEN NoAtr ELSE atrPct100,
                        MaxLeverage, DefaultLeverage).leverage

\* calculateSLTP with the setting it reads (risk.min_rr_ratio, in tenths) as an
\* argument; stopBefore and targetBefore are the values of stopLoss and
\* takeProfit when the reward:risk check of line 276 is reached
calculateSLTPWith(direction, entryPrice, atr, bollinger, minRR10) ==
  LET atrSL == (atr * 15) \div 10
      atrTP == (atr * 35) \div 10
      pctSL == (entryPrice * 2) \div 100
      pctTP == (entryPrice * 7) \div 100
      sl0 == IF direction = "long" THEN entryPrice - Min(atrSL, pctSL)
                                   ELSE entryPrice + Min(atrSL, pctSL)
      tp0 == IF direction = "long" THEN entryPrice + Max(atrTP, pctTP)
                                   ELSE entryPrice - Max(atrTP, pctTP)
      stopLoss ==
        IF ~bollinger.has THEN sl0
        ELSE IF direction = "long"
             THEN (IF bollinger.lower > sl0 THEN (bollinger.lower * 998) \div 1000 ELSE sl0)
             ELSE (IF bollinger.upper < sl0 THEN (bollinger.upper * 1002) \div 1000 ELSE sl0)
      tp1 ==
        IF ~bollinger.has THEN tp0
        ELSE IF direction = "long"
             THEN (IF bollinger.upper < tp0 THEN (bollinger.upper * 1002) \div 1000 ELSE tp0)
             ELSE (IF bollinger.lower > tp0 THEN (bollinger.lower * 998) \div 1000 ELSE tp0)
      slDist == Abs(entryPrice - stopLoss)
      tpDist == Abs(entryPrice - tp1)
      below == IF slDist > 0 THEN tpDist * 10 < slDist * minRR10 ELSE TRUE
      adjustedTPDist == (slDist * minRR10) \div 10
      takeProfit ==
        IF below
        THEN (IF direction = "long" THEN entryPrice + adjustedTPDist
                                    ELSE entryPrice - adjustedTPDist)
        ELSE tp1
  IN  [stopLoss |-> stopLoss, takeProfit |-> takeProfit,
       stopBefore |-> stopLoss, targetBefore |-> tp1]

\* as called by openPosition and analyzeOnly, with the default setting
calculateSLTP(direction, entryPrice, atr, bollinger) ==
  calculateSLTPWith(direction, entryPrice, atr, bollinger, MinRR10)

\* calculatePositionSize without if (stopDistance === 0) return null:
\* riskUSD / 0 is Infinity and the margin cap cuts it to maxMargin
calculatePositionSizeWith_NoZeroTest(balance, entryPrice, stopLossPrice, leverage, maxRiskPct, maxMarginPct) ==
  LET riskUSD == (balance * maxRiskPct) \div 100
      dist == Abs(entryPrice - stopLossPrice)
      maxMargin == (balance * maxMarginPct) \div 100
      margin == IF dist = 0 THEN maxMargin ELSE ((riskUSD * entryPrice) \div dist) \div leverage
      actualMargin == Min(margin, maxMargin)
      actualPositionValue == actualMargin * leverage
  IN  [ok |-> TRUE,
       riskUSD |-> riskUSD,
       margin |-> actualMargin,
       positionValue |-> actualPositionValue,
       amount |-> (actualPositionValue * 1000) \div entryPrice]

\* calculatePositionSize without the margin cap (actualMargin = margin)
calculatePositionSizeWith_NoCap(balance, entryPrice, stopLossPrice, leverage, maxRiskPct, maxMarginPct) ==
  LET riskUSD == (balance * maxRiskPct) \div 100
      dist == Abs(entryPrice - stopLossPrice)
      positionValue == IF dist = 0 THEN 0 ELSE (riskUSD * entryPrice) \div dist
      margin == positionValue \div leverage
  IN  [ok |-> dist # 0,
       riskUSD |-> riskUSD,
       margin |-> margin,
       positionValue |-> margin * leverage,
       amount |-> (margin * leverage * 1000) \div entryPrice]

\* calculatePositionSize sizing the margin, not the notional, by the risk
\* budget (margin = riskUSD / stopDistance)
calculatePositionSizeWith_RiskOnMargin(balance, entryPrice, stopLossPrice, leverage, maxRiskPct, maxMarginPct) ==
  LET riskUSD == (balance * maxRiskPct) \div 100
      dist == Abs(entryPrice - stopLossPrice)
      margin == IF dist = 0 THEN 0 ELSE (riskUSD * entryPrice) \div dist
      maxMargin == (balance * maxMarginPct) \div 100
      actualMargin == Min(margin, maxMargin)
      actualPositionValue == actualMargin * leverage
  IN  [ok |-> dist # 0,
       riskUSD |-> riskUSD,
       margin |-> actualMargin,
       positionValue |-> actualPositionValue,
       amount |-> (actualPositionValue * 1000) \div entryPrice]

\* calculatePositionSize with the two settings it reads (in percent) as
\* arguments; ok = FALSE stands for the null returned at a stop distance of 0.
\* Money and prices of one call share their unit, amount is in thousandths
calculatePositionSizeWith(balance, entryPrice, stopLossPrice, leverage, maxRiskPct, maxMarginPct) ==
  LET riskUSD == (balance * maxRiskPct) \div 100
      dist == Abs(entryPrice - stopLossPrice)
      positionValue == IF dist = 0 THEN 0 ELSE (riskUSD * entryPrice) \div dist
      margin == positionValue \div leverage
      maxMargin == (balance * maxMarginPct) \div 100
      actualMargin == Min(margin, maxMargin)
      actualPositionValue == actualMargin * leverage
  IN  [ok |-> dist # 0,
       riskUSD |-> riskUSD,
       margin |-> actualMargin,
       positionValue |-> actualPositionValue,
       amount |-> (actualPositionValue * 1000) \div entryPrice]

\* as called by openPosition and analyzeOnly, with the default settings
calculatePositionSize(balance, entryPrice, stopLossPrice, leverage) ==
  calculatePositionSizeWith(balance, entryPrice, stopLossPrice, leverage,
                            MaxPositionRiskPct, MaxMarginUsagePct)

\* ------------------------------------------------ calculateSignalScore
\* signal?.includes(word) on the signal names of the analysis
Includes(signal, word) ==
  \/ word = "buy" /\ signal \in {"buy", "strong_buy"}
  \/ word = "sell" /\ signal \in {"sell", "strong_sell"}

\* direction from the 1h signal, else from the 4h signal, else none
SignalDirection(sig1h, sig4h) ==
  IF Includes(sig1h, "buy") THEN "long"
  ELSE IF Includes(sig1h, "sell") THEN "short"
  ELSE IF Includes(sig4h, "buy") THEN "long"
  ELSE IF Includes(sig4h, "sell") THEN "short"
  ELSE "none"

TrendLayer(direction, sig4h, sig1h) ==
  LET word == IF direction = "long" THEN "buy" ELSE "sell"
  IN  IF Includes(sig4h, word) /\ Includes(sig1h, word) THEN 2
      ELSE IF Includes(sig4h, word) \/ Includes(sig1h, word) THEN 1
      ELSE 0

RsiLayer(direction, rsi) ==
  IF rsi = NoRsi THEN 0
  ELSE IF direction = "long"
  THEN (IF rsi < 25 THEN 2 ELSE IF rsi < 35 THEN 1 ELSE 0)
  ELSE (IF rsi > 75 THEN 2 ELSE IF rsi > 65 THEN 1 ELSE 0)

\* prev and diff are MACD - signal of the previous and the current bar
MacdLayer(direction, macd) ==
  LET crossUp == macd.prev <= 0 /\ macd.diff > 0
      crossDown == macd.prev >= 0 /\ macd.diff < 0
  IN  IF ~macd.has THEN 0
      ELSE IF direction = "long"
      THEN (IF crossUp THEN 2 ELSE IF macd.histogram > 0 THEN 1 ELSE 0)
      ELSE (IF crossDown THEN 2 ELSE IF macd.histogram < 0 THEN 1 ELSE 0)

\* position in hundredths of the band width
BollingerLayer(direction, bb) ==
  IF ~bb.has THEN 0
  ELSE IF direction = "long" /\ bb.position < 10 THEN 1
  ELSE IF direction = "short" /\ bb.position > 90 THEN 1
  ELSE IF bb.squeeze THEN 1
  ELSE 0

EmaLayer(direction, ema) ==
  IF ema.ema9 = 0 \/ ema.ema21 = 0 \/ ema.ema50 = 0 THEN 0
  ELSE IF direction = "long" /\ ema.ema9 > ema.ema21 /\ ema.ema21 > ema.ema50 THEN 1
  ELSE IF direction = "short" /\ ema.ema9 < ema.ema21 /\ ema.ema21 < ema.ema50 THEN 1
  ELSE 0

\* ratio in tenths
VolumeLayer(ratio) == IF ratio # NoRatio /\ ratio >= 13 THEN 1 ELSE 0

EntryTimingLayer(direction, tf15m) ==
  IF tf15m \in {"none", "error"} THEN 0
  ELSE IF \/ direction = "long" /\ Includes(tf15m, "buy")
          \/ direction = "short" /\ Includes(tf15m, "sell")
  THEN 1
  ELSE 0

NoLayers ==
  [has |-> FALSE, trend |-> 0, rsi |-> 0, macd |-> 0, bollinger |-> 0, ema |-> 0,
   volume |-> 0, entry_timing |-> 0]

\* the layers of a snapshot scored for a direction
ScoreLayers(direction, mtf) ==
  [has |-> TRUE,
   trend |-> TrendLayer(direction, mtf.sig4h, mtf.sig1h),
   rsi |-> RsiLayer(direction, mtf.rsi),
   macd |-> MacdLayer(direction, mtf.macd),
   bollinger |-> BollingerLayer(direction, mtf.bollinger),
   ema |-> EmaLayer(direction, mtf.ema),
   volume |-> VolumeLayer(mtf.ratio),
   entry_timing |-> EntryTimingLayer(direction, mtf.tf15m)]

LayerSum(l) ==
  l.trend + l.rsi + l.macd + l.bollinger + l.ema + l.volume + l.entry_timing

\* calculateSignalScore without the return on an undetermined direction
calculateSignalScore_NoDirectionTest(mtf) ==
  LET direction == SignalDirection(mtf.sig1h, mtf.sig4h)
      layers == ScoreLayers(direction, mtf)
  IN  IF ~mtf.ind1h \/ ~mtf.ind4h
      THEN [score |-> 0, direction |-> "none", layers |-> NoLayers]
      ELSE [score |-> LayerSum(layers), direction |-> direction, layers |-> layers]

calculateSignalScore(mtf) ==
  LET direction == SignalDirection(mtf.sig1h, mtf.sig4h)
      layers == ScoreLayers(direction, mtf)
  IN  IF ~mtf.ind1h \/ ~mtf.ind4h
      THEN [score |-> 0, direction |-> "none", layers |-> NoLayers]
      ELSE IF direction = "none"
      THEN [score |-> 0, direction |-> "none", layers |-> NoLayers]
      ELSE [score |-> LayerSum(layers), direction |-> direction, layers |-> layers]

\* the object built by openPosition from a signal and a balance; closes,
\* records and reduces count the offsetting orders confirmed for the position,
\* the recordPnL calls made for it and the reduce orders confirmed for it
\* (each counted up to MaxCount)
NewPosition(sig, balance) ==
  LET lev == determineLeverage(sig.score, sig.atrPct100)
      sltp == calculateSLTP(sig.dir, EntryPrice, sig.atr, sig.boll)
      sizing == calculatePositionSize(balance, EntryPrice, sltp.stopLoss, lev)
  IN  [direction |-> sig.dir, entryPrice |-> EntryPrice, amount |-> sizing.amount,
       leverage |-> lev, stopLoss |-> sltp.stopLoss, takeProfit |-> sltp.takeProfit,
       trailingStopActive |-> FALSE, trailingStopPrice |-> 0, partialClosed |-> FALSE,
       closes |-> 0, records |-> 0, reduces |-> 0, realized |-> 0]

NoObj == [direction |-> "none", entryPrice |-> 0, amount |-> 0, leverage |-> 0,
          stopLoss |-> 0, takeProfit |-> 0, trailingStopActive |-> FALSE,
          trailingStopPrice |-> 0, partialClosed |-> FALSE,
          closes |-> 0, records |-> 0, reduces |-> 0, realized |-> 0]

\* ------------------------------------------------- FuturesEngine: state
CoinSet == {Coins[k] : k \in 1..Len(Coins)}
ObjIds == 1..Max(MaxOpens, ConcOpens)
ScanIds == 1..MaxScanRuns
MonIds == 1..MaxMonRuns

NewEngine(t) ==
  [running |-> FALSE, dailyPnL |-> 0, day |-> Day(t),
   scanTimer |-> FALSE, positionTimer |-> FALSE,
   scanLeaked |-> FALSE, monLeaked |-> FALSE, pnlNaN |-> FALSE]

ScanIdle == [pc |-> "idle", origin |-> "timer", i |-> 0, sig |-> NoSig, balance |-> 0,
             failed |-> FALSE, unsized |-> FALSE]
MonIdle == [pc |-> "idle", kind |-> "monitor", done |-> {}, sym |-> "", live |-> FALSE,
            obj |-> 0, price |-> 0, reason |-> "", closeAmount |-> 0,
            todo |-> <<>>, snap |-> {}, clean |-> TRUE]

NoCall == [op |-> "none"]

InitEngine ==
  /\ now = 0
  /\ db = [locked |-> FALSE, lockUntil |-> NoTime, riskEvents |-> 0]
  /\ rm = NewRiskManager(0)
  /\ eng = NewEngine(0)
  /\ positions = [s \in CoinSet |-> 0]
  /\ posOrder = <<>>
  /\ objs = [k \in ObjIds |-> NoObj]
  /\ nextId = 1
  /\ scans = [r \in ScanIds |-> ScanIdle]
  /\ mons = [m \in MonIds |-> MonIdle]
  /\ trip = NoTime

Init ==
  /\ InitEngine
  /\ call = NoCall

\* ---------------------------------------------------- operator interface
\* the wall clock advances
Tick ==
  /\ now < MaxNow
  /\ now' = now + 1
  /\ UNCHANGED <<call, db, rm, eng, positions, posOrder, objs, nextId, scans, mons, trip>>

\* the process is killed and started again: index.js bootstrap builds a new
\* FuturesEngine, risk-manager.js a new RiskManager; only the database stays
Restart ==
  /\ rm' = NewRiskManager(now)
  /\ eng' = NewEngine(now)
  /\ positions' = [s \in CoinSet |-> 0]
  /\ posOrder' = <<>>
  /\ objs' = [k \in ObjIds |-> NoObj]
  /\ scans' = [r \in ScanIds |-> ScanIdle]
  /\ mons' = [m \in MonIds |-> MonIdle]
  /\ UNCHANGED <<call, now, db, nextId, trip>>

\* POST /api/risk/unlock
UnlockBot ==
  LET u == unlockBot(rm, db)
  IN  /\ rm' = u.rm
      /\ db' = u.db
      /\ trip' = NoTime
      /\ UNCHANGED <<call, now, eng, positions, posOrder, objs, nextId, scans, mons>>

\* the manual order route asks riskManager.canTrade() with no trade context
CanTradeCall ==
  LET c == canTrade(rm, db, now, NoConfig)
  IN  /\ rm' = c.rm
      /\ db' = c.db
      /\ UNCHANGED <<call, now, eng, positions, posOrder, objs, nextId, scans, mons, trip>>

\* ------------------------------------------------------------ scanSignals
\* the loop head of scanSignals: the first coin from index i on that is not
\* held, 0 when the loop ends (cap reached or no coin left)
NextCoin(i) ==
  LET c == {j \in i..Len(Coins) : positions[Coins[j]] = 0}
  IN  IF Len(posOrder) >= MaxOpenPositions \/ c = {} THEN 0
      ELSE CHOOSE j \in c : \A k \in c : j <= k

ScanFrom(run, i) ==
  IF NextCoin(i) = 0 THEN ScanIdle
  ELSE [pc |-> "analysis", origin |-> run.origin, i |-> NextCoin(i),
        sig |-> NoSig, balance |-> 0, failed |-> run.failed, unsized |-> FALSE]

\* start(): this.scanTimer = setInterval(..); this.positionTimer = setInterval(..)
\* a handle that is overwritten leaves its interval armed
ArmTimers(e) ==
  [e EXCEPT !.scanLeaked = @ \/ e.scanTimer, !.scanTimer = TRUE,
            !.monLeaked = @ \/ e.positionTimer, !.positionTimer = TRUE]

\* when the scan awaited by start() returns, start() arms the timers
AfterScan(run, next, e) ==
  IF next.pc = "idle" /\ run.origin = "start" THEN ArmTimers(e) ELSE e

\* scanSignals up to its first await
ScanEntry(e, d, t) ==
  IF ~e.running THEN [eng |-> e, db |-> d, go |-> FALSE]
  ELSE LET e1 == IF Day(t) # e.day THEN [e EXCEPT !.dailyPnL = 0, !.pnlNaN = FALSE, !.day = Day(t)]
                                          ELSE e
           d1 == IF Day(t) # e.day THEN ExpireLock(d, t) ELSE d
       IN  [eng |-> e1, db |-> d1, go |-> ~d1.locked /\ NextCoin(1) # 0]

\* at most n scanSignals calls are in progress at a time
FreeScan(n) == {r \in 1..n : scans[r].pc = "idle"}
FirstFreeScan(n) == CHOOSE r \in FreeScan(n) : \A q \in FreeScan(n) : r <= q

BeginScan(origin, n) ==
  [scans EXCEPT ![FirstFreeScan(n)] = ScanFrom([ScanIdle EXCEPT !.origin = origin], 1)]

\* POST /api/futures/start
Start(n) ==
  IF eng.running
  THEN UNCHANGED <<call, now, db, rm, eng, positions, posOrder, objs, nextId, scans, mons, trip>>
  ELSE LET se == ScanEntry([eng EXCEPT !.running = TRUE], db, now)
       IN  /\ db' = se.db
           /\ IF se.go
              THEN /\ FreeScan(n) # {}
                   /\ scans' = BeginScan("start", n)
                   /\ eng' = se.eng
              ELSE /\ scans' = scans
                   /\ eng' = ArmTimers(se.eng)
           /\ UNCHANGED <<call, now, rm, positions, posOrder, objs, nextId, mons, trip>>

\* POST /api/futures/stop
Stop ==
  /\ eng' = [eng EXCEPT !.running = FALSE, !.scanTimer = FALSE, !.positionTimer = FALSE]
  /\ UNCHANGED <<call, now, db, rm, positions, posOrder, objs, nextId, scans, mons, trip>>

\* an armed scan interval fires
ScanTick(n) ==
  /\ eng.scanTimer \/ eng.scanLeaked
  /\ LET se == ScanEntry(eng, db, now)
     IN  /\ db' = se.db
         /\ eng' = se.eng
         /\ IF se.go
            THEN FreeScan(n) # {} /\ scans' = BeginScan("timer", n)
            ELSE scans' = scans
  /\ UNCHANGED <<call, now, rm, positions, posOrder, objs, nextId, mons, trip>>

ScanContinue(r) ==
  LET next == ScanFrom(scans[r], scans[r].i + 1)
  IN  /\ scans' = [scans EXCEPT ![r] = next]
      /\ eng' = AfterScan(scans[r], next, eng)

\* openPosition threw in a gateway call (catch, line 486): the loop of
\* scanSignals goes on; failed marks the pass as having had a failed open
ScanAbort(r) ==
  LET next == ScanFrom([scans[r] EXCEPT !.failed = TRUE], scans[r].i + 1)
  IN  /\ scans' = [scans EXCEPT ![r] = next]
      /\ eng' = AfterScan(scans[r], next, eng)

\* the tradeConfig openPosition passes to canTrade: this.riskManager.canTrade()
OpenContext == NoConfig

Opening == {r \in ScanIds : scans[r].pc \in {"balance", "leverage", "order"}}

\* multiTimeframeAnalysis returns; a signal that qualifies enters openPosition,
\* which asks canTrade() before its first await
ScanAnalysis(r, S, budget) ==
  /\ scans[r].pc = "analysis"
  /\ \E sig \in S :
       IF sig.score >= MinSignalScore /\ sig.dir # "none"
       THEN /\ nextId + Cardinality(Opening) <= budget
            /\ LET c == canTrade(rm, db, now, OpenContext)
               IN  /\ rm' = c.rm
                   /\ db' = c.db
                   /\ IF c.ok
                      THEN /\ scans' = [scans EXCEPT ![r].pc = "balance", ![r].sig = sig]
                           /\ eng' = eng
                      ELSE ScanContinue(r)
       ELSE /\ ScanContinue(r)
            /\ UNCHANGED <<rm, db>>
  /\ UNCHANGED <<call, now, positions, posOrder, objs, nextId, mons, trip>>

Sizing(run) ==
  LET p == NewPosition(run.sig, run.balance)
  IN  calculatePositionSize(run.balance, EntryPrice, p.stopLoss, p.leverage)

\* openPosition returned at if (!sizing): the loop of scanSignals goes on;
\* unsized marks the coin that follows an open without a sizing
ScanUnsized(r) ==
  LET from == ScanFrom(scans[r], scans[r].i + 1)
      next == IF from.pc = "idle" THEN from ELSE [from EXCEPT !.unsized = TRUE]
  IN  /\ scans' = [scans EXCEPT ![r] = next]
      /\ eng' = AfterScan(scans[r], next, eng)

\* getBalance returns: leverage, stop/target and sizing are computed
OpenBalance(r) ==
  /\ scans[r].pc = "balance"
  /\ \E balance \in Balances :
       LET run == [scans[r] EXCEPT !.balance = balance]
       IN  IF ~Sizing(run).ok
           THEN ScanUnsized(r)
           ELSE IF Sizing(run).margin * 2 > balance
           THEN ScanContinue(r)
           ELSE /\ scans' = [scans EXCEPT ![r] = [run EXCEPT !.pc = "leverage"]]
                /\ eng' = eng
  /\ UNCHANGED <<call, now, db, rm, positions, posOrder, objs, nextId, mons, trip>>

\* setLeverage and setMarginMode return, or one of them throws; nothing is
\* read or written between the two awaits
OpenLeverage(r) ==
  /\ scans[r].pc = "leverage"
  /\ \E ok \in BOOLEAN :
       IF ok THEN scans' = [scans EXCEPT ![r].pc = "order"] /\ eng' = eng
       ELSE ScanAbort(r)
  /\ UNCHANGED <<call, now, db, rm, positions, posOrder, objs, nextId, mons, trip>>

\* objects no longer in the map and no longer held by a running call
Collect(o, p, ms) ==
  [k \in DOMAIN o |->
     IF k \in {p[s] : s \in CoinSet} \cup {ms[m].obj : m \in MonIds} THEN o[k] ELSE NoObj]

\* openPosition with positions.set moved before the await of createOrder
OpenOrder_SetBeforeOrder(r) ==
  LET sym == Coins[scans[r].i]
  IN  /\ scans[r].pc = "order"
      /\ positions' = [positions EXCEPT ![sym] = nextId]
      /\ posOrder' = IF positions[sym] # 0 THEN posOrder ELSE Append(posOrder, sym)
      /\ objs' = Collect([objs EXCEPT ![nextId] = NewPosition(scans[r].sig, scans[r].balance)],
                         positions', mons)
      /\ nextId' = nextId + 1
      /\ \E ok \in BOOLEAN :
           IF ok THEN scans' = [scans EXCEPT ![r].pc = "notify"] /\ eng' = eng
           ELSE ScanAbort(r)
      /\ UNCHANGED <<call, now, db, rm, mons, trip>>

\* the opening createOrder returns or throws; on return positions.set(symbol, position)
OpenOrder(r) ==
  LET sym == Coins[scans[r].i]
  IN  /\ scans[r].pc = "order"
      /\ \E ok \in BOOLEAN :
           IF ok
           THEN /\ positions' = [positions EXCEPT ![sym] = nextId]
                /\ posOrder' = IF positions[sym] # 0 THEN posOrder ELSE Append(posOrder, sym)
                /\ objs' = Collect([objs EXCEPT ![nextId] = NewPosition(scans[r].sig, scans[r].balance)],
                                   positions', mons)
                /\ nextId' = nextId + 1
                /\ scans' = [scans EXCEPT ![r].pc = "notify"]
                /\ eng' = eng
           ELSE /\ ScanAbort(r)
                /\ UNCHANGED <<positions, posOrder, objs, nextId>>
      /\ UNCHANGED <<call, now, db, rm, mons, trip>>

\* notifyTrade returns; the loop of scanSignals goes on
OpenNotify(r) ==
  /\ scans[r].pc = "notify"
  /\ ScanContinue(r)
  /\ UNCHANGED <<call, now, db, rm, positions, posOrder, objs, nextId, mons, trip>>

\* notifyTrade throws: the catch of openPosition (line 486), the loop of
\* scanSignals goes on
OpenNotifyThrows(r) ==
  /\ scans[r].pc = "notify"
  /\ ScanAbort(r)
  /\ UNCHANGED <<call, now, db, rm, positions, posOrder, objs, nextId, mons, trip>>

\* ------------------------------------------------------- monitorPositions
\* for (const [symbol, pos] of this.positions): the next entry, in insertion
\* order, that this call has not visited
MonFrom(done, order, pos) ==
  LET c == {k \in 1..Len(order) : order[k] \notin done}
      first == CHOOSE k \in c : \A q \in c : k <= q
  IN  IF c = {} THEN MonIdle
      ELSE [pc |-> "ticker", kind |-> "monitor", done |-> done, sym |-> order[first],
            live |-> TRUE, obj |-> pos[order[first]], price |-> 0, reason |-> "",
            closeAmount |-> 0, todo |-> <<>>, snap |-> {}, clean |-> TRUE]

\* for (const symbol of symbols) in closeAllPositions: the next key of the
\* snapshot taken at call time; snap holds the position objects of that
\* moment, clean whether every gateway call of this run returned so far
AllFrom(todo, snap, clean) ==
  IF todo = <<>> THEN MonIdle
  ELSE [pc |-> "allTicker", kind |-> "closeAll", done |-> {}, sym |-> Head(todo),
        live |-> FALSE, obj |-> 0, price |-> 0, reason |-> "", closeAmount |-> 0,
        todo |-> Tail(todo), snap |-> snap, clean |-> clean]

\* the entries this call has visited once the current one is finished
Visited(run) == IF run.live THEN run.done \cup {run.sym} ELSE run.done

\* the loop of the caller goes on: monitorPositions or closeAllPositions
NextOf(run, order, pos) ==
  IF run.kind = "closeAll" THEN AllFrom(run.todo, run.snap, run.clean)
  ELSE MonFrom(Visited(run), order, pos)

MonContinue(m) ==
  mons' = [mons EXCEPT ![m] = NextOf(mons[m], posOrder, positions)]

\* the try/catch put around the whole loop: a throw ends the run
MonAbort_EndsLoop(m) ==
  mons' = [mons EXCEPT ![m] = MonIdle]

\* the caller's loop goes on after a gateway call of the run threw
MonAbort(m) ==
  mons' = [mons EXCEPT ![m] = NextOf([mons[m] EXCEPT !.clean = FALSE], posOrder, positions)]

\* at most n monitorPositions calls are in progress at a time
FreeMon(n) == {m \in 1..n : mons[m].pc = "idle"}
FirstFreeMon(n) == CHOOSE m \in FreeMon(n) : \A q \in FreeMon(n) : m <= q

\* an armed position interval fires
MonTick(n) ==
  /\ eng.positionTimer \/ eng.monLeaked
  /\ IF ~eng.running \/ Len(posOrder) = 0
     THEN mons' = mons
     ELSE /\ FreeMon(n) # {}
          /\ mons' = [mons EXCEPT ![FirstFreeMon(n)] = MonFrom({}, posOrder, positions)]
  /\ UNCHANGED <<call, now, db, rm, eng, positions, posOrder, objs, nextId, scans, trip>>

hitSL(o, p) ==
  \/ o.direction = "long" /\ p <= o.stopLoss
  \/ o.direction = "short" /\ p >= o.stopLoss

hitTP(o, p) ==
  \/ o.direction = "long" /\ p >= o.takeProfit
  \/ o.direction = "short" /\ p <= o.takeProfit

\* pos.pnlPct >= pct, with pnlPct = (price difference / entry) * 100 * leverage
PnlPctAtLeast(o, p, pct) ==
  IF o.direction = "long"
  THEN (p - o.entryPrice) * 100 * o.leverage >= pct * o.entryPrice
  ELSE (o.entryPrice - p) * 100 * o.leverage >= pct * o.entryPrice

TrailDistance(p) == (p * TrailingDistancePerMille) \div 1000

\* the trailing-stop block without the comparison with the stored stop
Trail_NoRatchet(o, p) ==
  LET o1 == IF PnlPctAtLeast(o, p, TrailingActivatePct) /\ ~o.trailingStopActive
            THEN [o EXCEPT !.trailingStopActive = TRUE] ELSE o
  IN  IF ~o1.trailingStopActive THEN o1
      ELSE IF o1.direction = "long"
      THEN [o1 EXCEPT !.trailingStopPrice = p - TrailDistance(p)]
      ELSE [o1 EXCEPT !.trailingStopPrice = p + TrailDistance(p)]

\* the trailing-stop block of one tick applied to the position object
Trail(o, p) ==
  LET o1 == IF PnlPctAtLeast(o, p, TrailingActivatePct) /\ ~o.trailingStopActive
            THEN [o EXCEPT !.trailingStopActive = TRUE,
                           !.trailingStopPrice = IF o.direction = "long"
                                                 THEN p - TrailDistance(p)
                                                 ELSE p + TrailDistance(p)]
            ELSE o
  IN  IF ~o1.trailingStopActive THEN o1
      ELSE IF o1.direction = "long"
      THEN [o1 EXCEPT !.trailingStopPrice = Max(@, p - TrailDistance(p))]
      ELSE [o1 EXCEPT !.trailingStopPrice = Min(@, p + TrailDistance(p))]

hitTrail(o, p) ==
  /\ o.trailingStopActive
  /\ \/ o.direction = "long" /\ p <= o.trailingStopPrice
     \/ o.direction = "short" /\ p >= o.trailingStopPrice

\* closePosition up to its createOrder: const pos = this.positions.get(symbol)
EnterClose(m, reason, p) ==
  IF positions[mons[m].sym] = 0
  THEN MonContinue(m)
  ELSE mons' = [mons EXCEPT ![m].pc = "closeOrder", ![m].obj = positions[mons[m].sym],
                            ![m].price = p, ![m].reason = reason]

\* the exit checks with the trailing-stop block ahead of the stop-loss and
\* take-profit tests
MonTicker_TrailFirst(m, P) ==
  LET run == mons[m]
      o == objs[run.obj]
  IN  /\ run.pc = "ticker"
      /\ \/ MonContinue(m) /\ objs' = Collect(objs, positions, mons')
         \/ \E p \in P :
              IF hitTrail(Trail(o, p), p) THEN
                /\ EnterClose(m, "TRAILING STOP", p)
                /\ objs' = Collect([objs EXCEPT ![run.obj] = Trail(o, p)], positions, mons')
              ELSE IF hitSL(o, p) THEN
                /\ EnterClose(m, "STOP LOSS", p)
                /\ objs' = Collect([objs EXCEPT ![run.obj] = Trail(o, p)], positions, mons')
              ELSE IF hitTP(o, p) THEN
                /\ EnterClose(m, "TAKE PROFIT", p)
                /\ objs' = Collect([objs EXCEPT ![run.obj] = Trail(o, p)], positions, mons')
              ELSE IF PnlPctAtLeast(o, p, PartialClosePct) /\ ~Trail(o, p).partialClosed THEN
                /\ mons' = [mons EXCEPT ![m].pc = "partialOrder", ![m].price = p,
                              ![m].closeAmount = (o.amount * PartialCloseAmount) \div 100]
                /\ objs' = [objs EXCEPT ![run.obj] = Trail(o, p)]
              ELSE
                /\ MonContinue(m)
                /\ objs' = Collect([objs EXCEPT ![run.obj] = Trail(o, p)], positions, mons')
      /\ UNCHANGED <<call, now, db, rm, eng, positions, posOrder, nextId, scans, trip>>

\* getTicker returns a price, returns none or throws; the exit checks of one
\* position are evaluated up to the next await
MonTicker(m, P) ==
  LET run == mons[m]
      o == objs[run.obj]
  IN  /\ run.pc = "ticker"
      /\ \/ MonContinue(m) /\ objs' = Collect(objs, positions, mons')
         \/ \E p \in P :
              IF hitSL(o, p) THEN
                /\ EnterClose(m, "STOP LOSS", p)
                /\ objs' = Collect(objs, positions, mons')
              ELSE IF hitTP(o, p) THEN
                /\ EnterClose(m, "TAKE PROFIT", p)
                /\ objs' = Collect(objs, positions, mons')
              ELSE IF hitTrail(Trail(o, p), p) THEN
                /\ EnterClose(m, "TRAILING STOP", p)
                /\ objs' = Collect([objs EXCEPT ![run.obj] = Trail(o, p)], positions, mons')
              ELSE IF PnlPctAtLeast(o, p, PartialClosePct) /\ ~Trail(o, p).partialClosed THEN
                /\ mons' = [mons EXCEPT ![m].pc = "partialOrder", ![m].price = p,
                              ![m].closeAmount = (o.amount * PartialCloseAmount) \div 100]
                /\ objs' = [objs EXCEPT ![run.obj] = Trail(o, p)]
              ELSE
                /\ MonContinue(m)
                /\ objs' = Collect([objs EXCEPT ![run.obj] = Trail(o, p)], positions, mons')
      /\ UNCHANGED <<call, now, db, rm, eng, positions, posOrder, nextId, scans, trip>>

\* the P&L realized by a reduce fill of closeAmount at price p
ReducePnL(o, closeAmount, p) ==
  IF o.direction = "long"
  THEN ((p - o.entryPrice) * closeAmount) \div 1000
  ELSE ((o.entryPrice - p) * closeAmount) \div 1000

\* the reduce order of the partial close returns or throws; realized notes
\* the P&L of the reduce fills confirmed for the position
PartialOrder(m) ==
  LET run == mons[m]
  IN  /\ run.pc = "partialOrder"
      /\ \E ok \in BOOLEAN :
           IF ok
           THEN /\ objs' = [objs EXCEPT ![run.obj].amount = @ - run.closeAmount,
                                        ![run.obj].reduces = Min(@ + 1, MaxCount),
                                        ![run.obj].realized =
                                          @ + ReducePnL(objs[run.obj], run.closeAmount, run.price),
                                        ![run.obj].partialClosed = TRUE,
                                        ![run.obj].stopLoss = objs[run.obj].entryPrice]
                /\ mons' = [mons EXCEPT ![m].pc = "partialNotify"]
           ELSE /\ MonContinue(m)
                /\ objs' = Collect(objs, positions, mons')
      /\ UNCHANGED <<call, now, db, rm, eng, positions, posOrder, nextId, scans, trip>>

PartialNotify(m) ==
  /\ mons[m].pc = "partialNotify"
  /\ MonContinue(m)
  /\ objs' = Collect(objs, positions, mons')
  /\ UNCHANGED <<call, now, db, rm, eng, positions, posOrder, nextId, scans, trip>>

\* ---------------------------------------------------------- closePosition
finalPnL(o, closePrice) ==
  IF o.direction = "long"
  THEN ((closePrice - o.entryPrice) * o.amount) \div 1000
  ELSE ((o.entryPrice - closePrice) * o.amount) \div 1000

\* the offsetting createOrder returns or throws; on return the outcome is
\* added to the engine's dailyPnL and reported to riskManager.recordPnL.
\* closeAllPositions passes ticker.last unchecked: with no price the order is
\* sent all the same, and the call throws before recordPnL
CloseOrder(m) ==
  LET run == mons[m]
      pnl == finalPnL(objs[run.obj], run.price)
      rec == recordPnL(rm, db, now, pnl)
  IN  /\ run.pc = "closeOrder"
      /\ \E ok \in BOOLEAN :
           IF ok /\ run.price # NoPrice
           THEN /\ eng' = [eng EXCEPT !.dailyPnL = @ + pnl]
                /\ rm' = rec.rm
                /\ db' = rec.db
                /\ trip' = IF Breaches(rec.rm.dailyPnL) THEN NextMidnight(now) ELSE trip
                /\ mons' = [mons EXCEPT ![m].pc = "closeBalance"]
                /\ objs' = [objs EXCEPT ![run.obj].closes = Min(@ + 1, MaxCount),
                                        ![run.obj].records = Min(@ + 1, MaxCount)]
           ELSE IF ok
           THEN \* closePrice is undefined: dailyPnL += NaN, then closePrice.toFixed throws
                /\ eng' = [eng EXCEPT !.pnlNaN = TRUE]
                /\ MonAbort(m)
                /\ objs' = Collect([objs EXCEPT ![run.obj].closes = Min(@ + 1, MaxCount)],
                                   positions, mons')
                /\ UNCHANGED <<rm, db, trip>>
           ELSE /\ MonAbort(m)
                /\ objs' = Collect(objs, positions, mons')
                /\ UNCHANGED <<eng, rm, db, trip>>
      /\ UNCHANGED <<call, now, positions, posOrder, nextId, scans>>

\* getBalance returns; the engine's own daily-loss check
CloseBalance(m) ==
  /\ mons[m].pc = "closeBalance"
  /\ \E balance \in Balances :
       db' = IF ~eng.pnlNaN /\ eng.dailyPnL * 100 < -(balance * MaxDailyLossPct)
             THEN [db EXCEPT !.locked = TRUE, !.lockUntil = NextMidnight(now)]
             ELSE db
  /\ mons' = [mons EXCEPT ![m].pc = "closeNotify"]
  /\ UNCHANGED <<call, now, rm, eng, positions, posOrder, objs, nextId, scans, trip>>

Remove(order, s) == SelectSeq(order, LAMBDA x : x # s)

\* the notifications return; this.positions.delete(symbol)
CloseNotify(m) ==
  LET sym == mons[m].sym
      others == [k \in MonIds |->
                   IF mons[k].pc = "idle" THEN mons[k]
                   ELSE [mons[k] EXCEPT !.done = @ \ {sym},
                                        !.live = @ /\ mons[k].sym # sym]]
  IN  /\ mons[m].pc = "closeNotify"
      /\ positions' = [positions EXCEPT ![sym] = 0]
      /\ posOrder' = Remove(posOrder, sym)
      /\ mons' = [others EXCEPT ![m] = NextOf(others[m], posOrder', positions')]
      /\ objs' = Collect(objs, positions', mons')
      /\ UNCHANGED <<call, now, db, rm, eng, nextId, scans, trip>>

\* notifyRiskAlert, notifyTrade or notifyStopLoss throws: the catch of
\* closePosition (line 698) is entered before this.positions.delete(symbol)
CloseNotifyThrows(m) ==
  /\ mons[m].pc = "closeNotify"
  /\ objs[mons[m].obj].records < MaxCount
  /\ MonAbort(m)
  /\ objs' = Collect(objs, positions, mons')
  /\ UNCHANGED <<call, now, db, rm, eng, positions, posOrder, nextId, scans, trip>>

\* ------------------------------------------------------ closeAllPositions
\* POST /api/futures/close-all: const symbols = [...this.positions.keys()]
CloseAllCall(m) ==
  /\ mons[m].pc = "idle"
  /\ mons' = [mons EXCEPT ![m] = AllFrom(posOrder, {positions[s] : s \in CoinSet} \ {0}, TRUE)]
  /\ UNCHANGED <<call, now, db, rm, eng, positions, posOrder, objs, nextId, scans, trip>>

\* getTicker returns a ticker, with or without a last price, or throws;
\* closePosition(symbol, 'MANUAL_CLOSE', ticker.last) runs up to its createOrder
CloseAllTicker(m, P) ==
  /\ mons[m].pc = "allTicker"
  /\ \/ MonAbort(m)
     \/ \E p \in P \cup {NoPrice} :
          IF positions[mons[m].sym] = 0 THEN MonContinue(m)
          ELSE mons' = [mons EXCEPT ![m].pc = "closeOrder", ![m].obj = positions[mons[m].sym],
                                    ![m].price = p, ![m].reason = "MANUAL_CLOSE",
                                    ![m].clean = @ /\ p # NoPrice]
  /\ objs' = Collect(objs, positions, mons')
  /\ UNCHANGED <<call, now, db, rm, eng, positions, posOrder, nextId, scans, trip>>

\* ------------------------------------------------------------ analyzeOnly
NoResult == [error |-> FALSE, score |-> 0, direction |-> "none", leverage |-> 0,
             stopLoss |-> 0, takeProfit |-> 0, margin |-> 0, amount |-> 0,
             wouldTrade |-> FALSE]

\* the object analyzeOnly returns for a scored analysis and a balance
\* (sltp and sizing are null, here 0, without a direction; sizing is null
\* when the stop distance is 0)
AnalysisResult(sig, balance) ==
  LET lev == determineLeverage(sig.score, sig.atrPct100)
      sltp == calculateSLTP(sig.dir, EntryPrice, sig.atr, sig.boll)
      sizing == calculatePositionSize(balance, EntryPrice, sltp.stopLoss, lev)
      has == sig.dir # "none"
  IN  [error |-> FALSE, score |-> sig.score, direction |-> sig.dir, leverage |-> lev,
       stopLoss |-> IF has THEN sltp.stopLoss ELSE 0,
       takeProfit |-> IF has THEN sltp.takeProfit ELSE 0,
       margin |-> IF has /\ sizing.ok THEN sizing.margin ELSE 0,
       amount |-> IF has /\ sizing.ok THEN sizing.amount ELSE 0,
       wouldTrade |-> sig.score >= MinSignalScore /\ has]

\* GET /api/futures/analyze/:symbol
AnalyzeCall ==
  /\ call = NoCall
  /\ \E sym \in CoinSet :
       call' = [op |-> "analyzeOnly", pc |-> "analysis", sym |-> sym, sig |-> NoSig,
                balance |-> 0, out |-> NoResult]
  /\ UNCHANGED <<now, db, rm, eng, positions, posOrder, objs, nextId, scans, mons, trip>>

\* multiTimeframeAnalysis returns an analysis or an error, or throws; without
\* a direction the result is complete, with one the balance is awaited
AnalyzeAnalysis(S) ==
  /\ call.op = "analyzeOnly" /\ call.pc = "analysis"
  /\ \/ call' = [call EXCEPT !.pc = "done", !.out = [NoResult EXCEPT !.error = TRUE]]
     \/ \E sig \in S :
          call' = IF sig.dir # "none"
                  THEN [call EXCEPT !.pc = "balance", !.sig = sig]
                  ELSE [call EXCEPT !.pc = "done", !.sig = sig,
                                    !.out = AnalysisResult(sig, 0)]
  /\ UNCHANGED <<now, db, rm, eng, positions, posOrder, objs, nextId, scans, mons, trip>>

\* analyzeOnly asking riskManager.canTrade() for wouldTrade, as openPosition does
AnalyzeBalance_AsksCanTrade ==
  /\ call.op = "analyzeOnly" /\ call.pc = "balance"
  /\ \E balance \in Balances :
       call' = [call EXCEPT !.pc = "done", !.balance = balance,
                            !.out = AnalysisResult(call.sig, balance)]
  /\ rm' = canTrade(rm, db, now, NoConfig).rm
  /\ db' = canTrade(rm, db, now, NoConfig).db
  /\ UNCHANGED <<now, eng, positions, posOrder, objs, nextId, scans, mons, trip>>

\* getBalance returns; sizing is computed and the result returned
AnalyzeBalance ==
  /\ call.op = "analyzeOnly" /\ call.pc = "balance"
  /\ \E balance \in Balances :
       call' = [call EXCEPT !.pc = "done", !.balance = balance,
                            !.out = AnalysisResult(call.sig, balance)]
  /\ UNCHANGED <<now, db, rm, eng, positions, posOrder, objs, nextId, scans, mons, trip>>

\* the response is sent
AnalyzeReturn ==
  /\ call.op = "analyzeOnly" /\ call.pc = "done"
  /\ call' = NoCall
  /\ UNCHANGED <<now, db, rm, eng, positions, posOrder, objs, nextId, scans, mons, trip>>

\* ------------------------------------------------- functions on arguments
NoLeverage == [leverage |-> 0, tier |-> "none"]

\* determineLeverage is applied to the arguments and settings of the call
ApplyDetermineLeverage ==
  /\ call.op = "determineLeverage" /\ call.pc = "args"
  /\ call' = [call EXCEPT !.pc = "done",
                 !.out = determineLeverageWith(call.score, call.atrPct,
                                               call.maxLeverage, call.defaultLeverage)]
  /\ UNCHANGED <<now, db, rm, eng, positions, posOrder, objs, nextId, scans, mons, trip>>

NoSLTP == [stopLoss |-> 0, takeProfit |-> 0, stopBefore |-> 0, targetBefore |-> 0]

\* calculateSLTP is applied to the arguments and the setting of the call
ApplyCalculateSLTP ==
  /\ call.op = "calculateSLTP" /\ call.pc = "args"
  /\ call' = [call EXCEPT !.pc = "done",
                 !.out = calculateSLTPWith(call.direction, call.entryPrice, call.atr,
                                           call.bollinger, call.minRR10)]
  /\ UNCHANGED <<now, db, rm, eng, positions, posOrder, objs, nextId, scans, mons, trip>>

NoSizing == [ok |-> FALSE, riskUSD |-> 0, margin |-> 0, positionValue |-> 0, amount |-> 0]

\* calculatePositionSize is applied to the arguments and settings of the call
ApplyCalculatePositionSize ==
  /\ call.op = "calculatePositionSize" /\ call.pc = "args"
  /\ call' = [call EXCEPT !.pc = "done",
                 !.out = calculatePositionSizeWith(call.balance, call.entryPrice,
                                                   call.stopLossPrice, call.leverage,
                                                   call.maxRiskPct, call.maxMarginPct)]
  /\ UNCHANGED <<now, db, rm, eng, positions, posOrder, objs, nextId, scans, mons, trip>>

\* canTrade is applied to the context of the call
ApplyCanTrade ==
  LET c == canTrade(rm, db, now, call.cfg)
  IN  /\ call.op = "canTrade" /\ call.pc = "args"
      /\ call' = [call EXCEPT !.pc = "done", !.out = c.ok]
      /\ rm' = c.rm
      /\ db' = c.db
      /\ UNCHANGED <<now, eng, positions, posOrder, objs, nextId, scans, mons, trip>>

\* kellyOptimalSize is applied to the balance and the trades table of the call
ApplyKellyOptimalSize ==
  /\ call.op = "kellyOptimalSize" /\ call.pc = "args"
  /\ call' = [call EXCEPT !.pc = "done", !.out = kellyOptimalSize(call.balance, call.trades)]
  /\ UNCHANGED <<now, db, rm, eng, positions, posOrder, objs, nextId, scans, mons, trip>>

\* no outcome has been recorded yet
NoRecord == [op |-> "recordPnL", n |-> 0, pnl |-> 0, day |-> NoDay, today |-> 0]

\* the sum of the outcomes recorded during the local day of t, by the record
\* of the recordPnL calls made so far
TodaysOutcomes(c, t) == IF c.day = Day(t) THEN c.today ELSE 0

\* closePosition reports an outcome: riskManager.recordPnL(finalPnL). The
\* call is noted with its day and the sum of the outcomes of that day
RecordCall ==
  \E pnl \in Outcomes :
    LET rec == recordPnL(rm, db, now, pnl)
    IN  /\ call.op = "recordPnL" /\ call.n < MaxRecords
        /\ rm' = rec.rm
        /\ db' = rec.db
        /\ trip' = IF Breaches(rec.rm.dailyPnL) THEN NextMidnight(now) ELSE trip
        /\ call' = [op |-> "recordPnL", n |-> call.n + 1, pnl |-> pnl, day |-> Day(now),
                    today |-> TodaysOutcomes(call, now) + pnl]
        /\ UNCHANGED <<now, eng, positions, posOrder, objs, nextId, scans, mons>>

NoScore == [score |-> -1, direction |-> "none", layers |-> NoLayers]

\* calculateSignalScore is applied to the snapshot of the call
ApplyCalculateSignalScore ==
  /\ call.op = "calculateSignalScore" /\ call.pc = "args"
  /\ call' = [call EXCEPT !.pc = "done", !.out = calculateSignalScore(call.mtf)]
  /\ UNCHANGED <<now, db, rm, eng, positions, posOrder, objs, nextId, scans, mons, trip>>

\* ------------------------------------------------------------------ system
\* The lock lifecycle: the clock, restarts, the operator and one scan and one
\* monitor call at a time, with prices that stop a long position out.
LockEngineStep ==
  \/ Tick \/ Restart \/ UnlockBot \/ CanTradeCall \/ Start(LockScanRuns) \/ Stop
  \/ ScanTick(LockScanRuns) \/ MonTick(LockMonRuns)
  \/ \E r \in 1..LockScanRuns :
       \/ ScanAnalysis(r, LockSignals, MaxOpens) \/ OpenBalance(r) \/ OpenLeverage(r)
       \/ OpenOrder(r) \/ OpenNotify(r)
  \/ \E m \in 1..LockMonRuns :
       MonTicker(m, LockPrices) \/ CloseOrder(m) \/ CloseBalance(m) \/ CloseNotify(m)

Next == LockEngineStep

Spec == Init /\ [][Next]_vars

\* Overlapping scan calls: several scanSignals passes in progress at once
\* beside the monitor, within one day and one process (overlapping monitor
\* calls are in OverlapSpec).
NextConc ==
  \/ Start(MaxScanRuns) \/ Stop \/ ScanTick(MaxScanRuns) \/ MonTick(LockMonRuns)
  \/ \E r \in ScanIds :
       \/ ScanAnalysis(r, ConcSignals, ConcOpens) \/ OpenBalance(r) \/ OpenLeverage(r)
       \/ OpenOrder(r) \/ OpenNotify(r)
  \/ \E m \in 1..LockMonRuns :
       MonTicker(m, LockPrices) \/ CloseOrder(m) \/ CloseBalance(m) \/ CloseNotify(m)

ConcSpec == Init /\ [][NextConc]_vars

\* One scan call and one monitor call at a time within one day, under fair
\* scheduling: an armed position interval keeps firing, every awaited gateway
\* call returns, and a close order that is attempted again and again is
\* confirmed in the end.
NextFair ==
  \/ Start(LockScanRuns) \/ Stop \/ ScanTick(LockScanRuns) \/ MonTick(LockMonRuns)
  \/ \E r \in 1..LockScanRuns :
       \/ ScanAnalysis(r, ConcSignals, MaxOpens) \/ OpenBalance(r) \/ OpenLeverage(r)
       \/ OpenOrder(r) \/ OpenNotify(r)
  \/ \E m \in 1..LockMonRuns :
       MonTicker(m, LockPrices) \/ CloseOrder(m) \/ CloseBalance(m) \/ CloseNotify(m)

CloseConfirmed(m) == CloseOrder(m) /\ mons'[m].pc = "closeBalance"

FairSpec ==
  /\ Init
  /\ [][NextFair]_vars
  /\ WF_vars(MonTick(LockMonRuns))
  /\ \A m \in 1..LockMonRuns :
       /\ WF_vars(MonTicker(m, LockPrices))
       /\ WF_vars(CloseOrder(m))
       /\ SF_vars(CloseConfirmed(m))
       /\ WF_vars(CloseBalance(m))
       /\ WF_vars(CloseNotify(m))

\* One position at a time, with overlapping monitorPositions runs and
\* closeAllPositions calls, and prices that stop the position out or reach
\* the partial-close level.
NextOverlap ==
  \/ Start(LockScanRuns) \/ Stop \/ ScanTick(LockScanRuns) \/ MonTick(MaxMonRuns)
  \/ \E r \in 1..LockScanRuns :
       \/ ScanAnalysis(r, ConcSignals, OverlapOpens) \/ OpenBalance(r) \/ OpenLeverage(r)
       \/ OpenOrder(r) \/ OpenNotify(r)
  \/ \E m \in MonIds :
       \/ MonTicker(m, OverlapPrices) \/ PartialOrder(m) \/ PartialNotify(m)
       \/ CloseOrder(m) \/ CloseBalance(m) \/ CloseNotify(m)
       \/ CloseAllCall(m) \/ CloseAllTicker(m, OverlapPrices)

OverlapSpec == Init /\ [][NextOverlap]_vars

\* The life of a position: one scan call and one monitor call at a time, every
\* kind of signal and prices that move both ways.
NextLife ==
  \/ Start(LockScanRuns) \/ Stop \/ ScanTick(LockScanRuns) \/ MonTick(LockMonRuns)
  \/ \E r \in 1..LockScanRuns :
       \/ ScanAnalysis(r, Signals, LifeOpens) \/ OpenBalance(r) \/ OpenLeverage(r)
       \/ OpenOrder(r) \/ OpenNotify(r)
  \/ \E m \in 1..LockMonRuns :
       \/ MonTicker(m, Prices) \/ PartialOrder(m) \/ PartialNotify(m)
       \/ CloseOrder(m) \/ CloseBalance(m) \/ CloseNotify(m)

LifeSpec == Init /\ [][NextLife]_vars

\* closeAllPositions calls beside the scan passes that open up to MaxOpens
\* positions.
NextAll ==
  \/ Start(LockScanRuns) \/ Stop \/ ScanTick(LockScanRuns)
  \/ CloseAllCall(MaxMonRuns)
  \/ \E r \in 1..LockScanRuns :
       \/ ScanAnalysis(r, ConcSignals, MaxOpens) \/ OpenBalance(r) \/ OpenLeverage(r)
       \/ OpenOrder(r) \/ OpenNotify(r)
  \/ \E m \in MonIds :
       \/ CloseAllTicker(m, LockPrices)
       \/ CloseOrder(m) \/ CloseBalance(m) \/ CloseNotify(m)

AllSpec == Init /\ [][NextAll]_vars

\* analyzeOnly requests beside the clock, one scan call and one monitor call
\* that open and close a position.
NextAnalyze ==
  \/ Tick \/ Start(LockScanRuns) \/ MonTick(LockMonRuns)
  \/ AnalyzeCall \/ AnalyzeAnalysis(Signals) \/ AnalyzeBalance \/ AnalyzeReturn
  \/ \E r \in 1..LockScanRuns :
       \/ ScanAnalysis(r, ConcSignals, LifeOpens) \/ OpenBalance(r) \/ OpenLeverage(r)
       \/ OpenOrder(r) \/ OpenNotify(r)
  \/ \E m \in 1..LockMonRuns :
       MonTicker(m, LockPrices) \/ CloseOrder(m) \/ CloseBalance(m) \/ CloseNotify(m)

AnalyzeSpec == Init /\ [][NextAnalyze]_vars

\* determineLeverage on every score, atrPct and leverage setting
LeverageInit ==
  /\ InitEngine
  /\ call \in [op : {"determineLeverage"}, pc : {"args"}, score : Scores, atrPct : AtrPcts,
               maxLeverage : LeverageSettings, defaultLeverage : LeverageSettings,
               out : {NoLeverage}]

NextLeverage == ApplyDetermineLeverage

LeverageSpec == LeverageInit /\ [][NextLeverage]_vars

\* calculateSLTP in both directions on entry prices, ATR values (0 for a
\* missing ATR), Bollinger bands on either side of the entry and floors
SLTPInit ==
  /\ InitEngine
  /\ call \in [op : {"calculateSLTP"}, pc : {"args"}, direction : Directions,
               entryPrice : SltpEntries, atr : Atrs, bollinger : Bollingers,
               minRR10 : MinRRs, out : {NoSLTP}]

NextSLTP == ApplyCalculateSLTP

SLTPSpec == SLTPInit /\ [][NextSLTP]_vars

\* calculatePositionSize on balances and prices in whole dollars, stops on
\* either side of the entry and on it, every leverage and several settings
SizeInit ==
  /\ InitEngine
  /\ call \in [op : {"calculatePositionSize"}, pc : {"args"}, balance : SizeBalances,
               entryPrice : SizeEntries, stopLossPrice : SizeStops, leverage : Leverages,
               maxRiskPct : RiskPcts, maxMarginPct : MarginPcts, out : {NoSizing}]

NextSize == ApplyCalculatePositionSize

SizeSpec == SizeInit /\ [][NextSize]_vars

\* canTrade on contexts that give balance, margin and rrRatio, each of them
\* zero, below, on or above its limit, with no lock and no loss so far
GateInit ==
  /\ InitEngine
  /\ call \in [op : {"canTrade"}, pc : {"args"}, cfg : FullContexts, out : {FALSE}]

NextGate == ApplyCanTrade

GateSpec == GateInit /\ [][NextGate]_vars

\* kellyOptimalSize on trade histories below and above ten rows, with and
\* without winning and losing rows
KellyInit ==
  /\ InitEngine
  /\ call \in [op : {"kellyOptimalSize"}, pc : {"args"}, balance : KellyBalances,
               trades : TradeRows, out : {0}]

NextKelly == ApplyKellyOptimalSize

KellySpec == KellyInit /\ [][NextKelly]_vars

\* The risk manager over two days: outcomes are reported and canTrade is asked
\* at any time of the day
DayInit == InitEngine /\ call = NoRecord

NextDay == Tick \/ CanTradeCall \/ RecordCall

DaySpec == DayInit /\ [][NextDay]_vars

\* calculateSignalScore on snapshots with and without indicators, signals of
\* both signs and every band of every layer
ScoreInit ==
  /\ InitEngine
  /\ call \in [op : {"calculateSignalScore"}, pc : {"args"}, mtf : Snapshots, out : {NoScore}]

NextScore == ApplyCalculateSignalScore

ScoreSpec == ScoreInit /\ [][NextScore]_vars

\* One scan call and one monitor call at a time, with a notifier whose calls
\* return or throw.
NextNotify ==
  \/ Start(LockScanRuns) \/ Stop \/ ScanTick(LockScanRuns) \/ MonTick(LockMonRuns)
  \/ \E r \in 1..LockScanRuns :
       \/ ScanAnalysis(r, ConcSignals, LifeOpens) \/ OpenBalance(r) \/ OpenLeverage(r)
       \/ OpenOrder(r) \/ OpenNotify(r) \/ OpenNotifyThrows(r)
  \/ \E m \in 1..LockMonRuns :
       \/ MonTicker(m, LockPrices) \/ CloseOrder(m) \/ CloseBalance(m)
       \/ CloseNotify(m) \/ CloseNotifyThrows(m)

NotifySpec == Init /\ [][NextNotify]_vars

\* The operator unlocks the bot between closes: one scan call and one monitor
\* call at a time within one day, with prices that stop a long position out
\* at a large and at a small loss.
NextUnlock ==
  \/ UnlockBot \/ Start(LockScanRuns) \/ Stop
  \/ ScanTick(LockScanRuns) \/ MonTick(LockMonRuns)
  \/ \E r \in 1..LockScanRuns :
       \/ ScanAnalysis(r, ConcSignals, MaxOpens) \/ OpenBalance(r) \/ OpenLeverage(r)
       \/ OpenOrder(r) \/ OpenNotify(r)
  \/ \E m \in 1..LockMonRuns :
       MonTicker(m, UnlockPrices) \/ CloseOrder(m) \/ CloseBalance(m) \/ CloseNotify(m)

UnlockSpec == Init /\ [][NextUnlock]_vars

TypeOK ==
  /\ now \in 0..MaxNow
  /\ nextId - 1 \in {0} \cup ObjIds
  /\ Len(posOrder) = Cardinality({s \in CoinSet : positions[s] # 0})
  /\ \A s \in CoinSet : positions[s] # 0 => objs[positions[s]] # NoObj

\* ------------------------------------------------------------- properties
QualifyingConfig == [balance |-> 100000, margin |-> 50000, rr10 |-> 35]

\* a breaker trip by recordPnL is in force: not manually unlocked, not expired
TripActive == trip # NoTime /\ now < trip

\* recordPnL has just been called (closePosition, after the confirmed order)
RecordStep == \E m \in MonIds : mons[m].pc = "closeOrder" /\ mons'[m].pc = "closeBalance"

\* C1: from a recordPnL call that takes dailyPnL below -(balance x
\* maxDailyLossPct) until the lock expiry or a manual unlock, canTrade returns
\* false for every trade context, also one that passes the margin and
\* reward:risk checks.
C1_BreakerBlocksCanTrade ==
  TripActive => \A cfg \in TradeConfigs : ~canTrade(rm, db, now, cfg).ok

\* the breaker tripped, the process was restarted (the accumulator of the new
\* RiskManager is 0) and a qualifying context is still refused
C1_Witness ==
  /\ TripActive
  /\ rm.dailyPnL = 0
  /\ QualifyingConfig \in TradeConfigs
  /\ ~canTrade(rm, db, now, QualifyingConfig).ok

LockExpired == db.locked /\ db.lockUntil # NoTime /\ db.lockUntil <= now

\* C3: once the wall clock has reached lock_until, the next canTrade call
\* (the day's dailyPnL being within the limit) returns true and the next scan
\* pass is not skipped as locked, with no operator action.
C3_ResumesAfterExpiry ==
  (LockExpired /\ ~Breaches(checkDayReset(rm, db, now).rm.dailyPnL))
    => /\ canTrade(rm, db, now, NoConfig).ok
       /\ ~ScanEntry([eng EXCEPT !.running = TRUE], db, now).db.locked

\* C4: a recordPnL call that leaves dailyPnL below the limit sets the lock flag
\* with an expiry at the start of the next local day, strictly later than the
\* trip; both survive a restart, after which canTrade still returns false
\* until the expiry.
C4_TripSetsPersistedLock ==
  [][ /\ (RecordStep /\ Breaches(rm'.dailyPnL))
           => /\ db'.locked
              /\ db'.lockUntil = NextMidnight(now)
              /\ db'.lockUntil > now
      /\ (Restart /\ db.locked /\ now < db.lockUntil)
           => /\ db'.locked /\ db'.lockUntil = db.lockUntil
              /\ \A cfg \in TradeConfigs : ~canTrade(rm', db', now', cfg).ok ]_vars

\* recordPnL has just tripped the breaker
C4_Witness ==
  /\ Breaches(rm.dailyPnL)
  /\ db.locked
  /\ db.lockUntil = NextMidnight(now)
  /\ \E m \in MonIds : mons[m].pc = "closeBalance"

\* C5: a losing outcome recorded while the lock is set leaves the lock flag and
\* lock_until unchanged and records no additional lock event.
C5_TripIsIdempotent ==
  [][ (RecordStep /\ db.locked /\ rm'.dailyPnL < rm.dailyPnL)
        => /\ db'.locked = db.locked
           /\ db'.lockUntil = db.lockUntil
           /\ db'.riskEvents = db.riskEvents ]_vars

\* the lock is set and has not expired
LockInForce == db.locked /\ db.lockUntil # NoTime /\ now < db.lockUntil

\* scan call r issues the opening createOrder / gets it confirmed
OrderSent(r) == scans[r].pc = "leverage" /\ scans'[r].pc = "order"
OrderConfirmed(r) == scans[r].pc = "order" /\ scans'[r].pc = "notify"

\* C2: no opening order is sent and no position is added to the active set
\* while the lock is set and not expired, also by an openPosition call that
\* passed canTrade before the breaker tripped.
C2_NoOpenWhileLocked ==
  [][ \A r \in ScanIds : (OrderSent(r) \/ OrderConfirmed(r)) => ~LockInForce ]_vars

\* C6: a scan pass never opens a position for a symbol that already has an
\* entry in the active set.
C6_NoOpenForHeldSymbol ==
  [][ \A r \in ScanIds :
        (OrderSent(r) \/ OrderConfirmed(r)) => positions[Coins[scans[r].i]] = 0 ]_vars

\* C7: the positions in the active set counted together with the opening
\* orders in flight never exceed risk.max_open_positions.
C7_OpenCapRespected ==
  Len(posOrder) + Cardinality({r \in ScanIds : scans[r].pc = "order"}) <= MaxOpenPositions

\* C8: a scan tick never starts while a scanSignals run is in progress, and a
\* monitor tick never starts while a monitorPositions run is in progress.
C8_TicksDoNotOverlap ==
  [][ /\ \A r \in ScanIds :
           (scans[r].pc = "idle" /\ scans'[r].pc # "idle" /\ scans'[r].origin = "timer")
             => \A q \in ScanIds : scans[q].pc = "idle"
      /\ \A m \in MonIds :
           (mons[m].pc = "idle" /\ mons'[m].pc # "idle")
             => \A q \in MonIds : mons[q].pc = "idle" ]_vars

\* the offsetting order of monitor call m has just failed
CloseFailed(m) == mons[m].pc = "closeOrder" /\ mons'[m].pc \notin {"closeOrder", "closeBalance"}

\* C9: a position leaves the active set only in the step that follows the
\* confirmation of its own offsetting order; a close order that fails leaves
\* the active set and the position's quantity, stop, target and flags as
\* they were.
C9_RemovedOnlyAfterConfirmedClose ==
  [][ /\ \A s \in CoinSet :
           (positions[s] # 0 /\ positions'[s] # positions[s])
             => \E m \in MonIds : /\ mons[m].pc = "closeNotify"
                                  /\ mons[m].sym = s
                                  /\ mons[m].obj = positions[s]
      /\ \A m \in MonIds :
           CloseFailed(m)
             => /\ positions' = positions
                /\ \A s \in CoinSet : positions[s] # 0 => objs'[positions[s]] = objs[positions[s]] ]_vars

\* a close of position object k is being attempted
CloseAttempted(k) == \E m \in MonIds : mons[m].pc = "closeOrder" /\ mons[m].obj = k

InActiveSet(k) == \E s \in CoinSet : positions[s] = k

\* C10: under fair scheduling of monitor ticks and a gateway that confirms a
\* close order in the end, every position for which a close was attempted is
\* eventually removed from the active set, whatever the price does after a
\* failed attempt and whether or not stop() is called in between.
C10_CloseRetriedUntilConfirmed ==
  \A k \in ObjIds : (CloseAttempted(k) /\ InActiveSet(k)) ~> ~InActiveSet(k)

\* C11: for each opened position exactly one offsetting close order is
\* confirmed and recordPnL is invoked exactly once with its outcome: never
\* twice, and never zero times for a position that leaves the active set.
C11_ClosedAndRecordedOnce ==
  [][ /\ \A k \in ObjIds : objs'[k].closes <= 1 /\ objs'[k].records <= 1
      /\ \A s \in CoinSet :
           (positions[s] # 0 /\ positions'[s] # positions[s])
             => /\ objs[positions[s]].closes = 1
                /\ objs[positions[s]].records = 1 ]_vars

\* setLeverage, setMarginMode or the opening createOrder of scan call r throws
OpenFailed(r) ==
  (OpenLeverage(r) \/ OpenOrder(r)) /\ scans'[r].pc \notin {"order", "notify"}

PartialFailed(m) == PartialOrder(m) /\ mons'[m].pc # "partialNotify"

\* C13: over any sequence of monitor ticks a position has at most one reduce
\* order confirmed (its quantity is cut and its stop moved to breakeven at
\* most once), and a reduce order that fails leaves quantity, stopLoss and
\* the partialClosed flag as they were.
C13_PartialCloseOnce ==
  [][ /\ \A k \in ObjIds : objs'[k].reduces <= 1
      /\ \A m \in MonIds :
           PartialFailed(m)
             => LET k == mons[m].obj
                IN  /\ objs'[k].amount = objs[k].amount
                    /\ objs'[k].stopLoss = objs[k].stopLoss
                    /\ objs'[k].partialClosed = objs[k].partialClosed ]_vars

\* position object k stays the same position over the step
SamePosition(k) == objs[k].direction # "none" /\ objs'[k].direction = objs[k].direction

\* the trailing stop a tick at price p sets on activation
FirstTrail(o, p) == IF o.direction = "long" THEN p - TrailDistance(p) ELSE p + TrailDistance(p)

\* C14: while trailing is active the trailingStopPrice of a long position never
\* decreases from one tick to the next and that of a short position never
\* increases; on activation it is set at the configured distance from the
\* price of the activating tick.
C14_TrailingStopMonotonic ==
  [][ \A k \in ObjIds :
        SamePosition(k)
          => /\ objs[k].trailingStopActive
                  => /\ objs'[k].trailingStopActive
                     /\ objs[k].direction = "long"
                          => objs'[k].trailingStopPrice >= objs[k].trailingStopPrice
                     /\ objs[k].direction = "short"
                          => objs'[k].trailingStopPrice <= objs[k].trailingStopPrice
             /\ (~objs[k].trailingStopActive /\ objs'[k].trailingStopActive)
                  => \E p \in Prices :
                       /\ PnlPctAtLeast(objs[k], p, TrailingActivatePct)
                       /\ objs'[k].trailingStopPrice = FirstTrail(objs[k], p) ]_vars

\* trailing is active on a position whose stop follows the best price seen
C14_Witness ==
  \E k \in ObjIds :
    /\ objs[k].trailingStopActive
    /\ \/ objs[k].direction = "long" /\ objs[k].trailingStopPrice = 101455
       \/ objs[k].direction = "short" /\ objs[k].trailingStopPrice = 98455
    /\ objs[k].partialClosed

\* C15: the stopLoss of an open position never loosens: from one step to the
\* next it never decreases for a long position and never increases for a
\* short one, the move to breakeven at partial close included, for every
\* initial stop calculateSLTP produces.
C15_StopLossNeverLoosens ==
  [][ \A k \in ObjIds :
        SamePosition(k)
          => /\ objs[k].direction = "long" => objs'[k].stopLoss >= objs[k].stopLoss
             /\ objs[k].direction = "short" => objs'[k].stopLoss <= objs[k].stopLoss ]_vars

\* C16: between a stop() and the next start() (running is false) no opening
\* order is sent or confirmed and no position is added, also by a scan pass
\* that was in flight when stop() was called; stop() itself removes no
\* position from the active set.
C16_NoOpenAfterStop ==
  [][ /\ \A r \in ScanIds : (OrderSent(r) \/ OrderConfirmed(r)) => eng.running
      /\ Stop => (positions' = positions /\ posOrder' = posOrder) ]_vars

\* a start() call is still awaiting its initial scan
StartPending == \E r \in ScanIds : scans[r].pc # "idle" /\ scans[r].origin = "start"

\* C17: for any sequence of start() and stop() calls no interval is armed
\* beside the one the engine holds a handle of (at most one scan timer and one
\* monitor timer), and once stop() has returned and no start() is pending, no
\* timer is armed.
C17_TimersSingleAndCleared ==
  /\ ~eng.scanLeaked /\ ~eng.monLeaked
  /\ (~eng.running /\ ~StartPending) => (~eng.scanTimer /\ ~eng.positionTimer)

\* closeAllPositions call m returns, and every ticker and order of the call
\* was confirmed: the last step is the end of a confirmed close, or finds the
\* last symbol closed already
AllReturnsClean(m) ==
  /\ mons[m].kind = "closeAll"
  /\ mons'[m].pc = "idle"
  /\ mons[m].clean
  /\ \/ mons[m].pc = "closeNotify"
     \/ mons[m].pc = "allTicker" /\ positions[mons[m].sym] = 0

\* closeAllPositions call m leaves the symbol it is at without a confirmed order
AllMovesOn(m) ==
  /\ mons[m].kind = "closeAll"
  /\ mons[m].pc \in {"allTicker", "closeOrder"}
  /\ mons'[m] # mons[m]
  /\ mons'[m].pc \notin {"closeOrder", "closeBalance"}

AnalyzeStep == call' # call

\* C19: no step of analyzeOnly changes a position, the engine's dailyPnL or
\* other engine state, the risk manager or a setting, and no order is sent
\* (no position is created); the result returned is determined by the
\* analysis and the balance of the call alone.
C19_AnalyzeOnlyHasNoEffect ==
  [][ AnalyzeStep
        => /\ UNCHANGED <<db, rm, eng, positions, posOrder, objs, nextId, scans, mons>>
           /\ (call'.op = "analyzeOnly" /\ call'.pc = "done" /\ ~call'.out.error)
                => call'.out = AnalysisResult(call'.sig, call'.balance) ]_vars

\* an analysis that would trade has been returned on a day after the risk
\* manager's currentDay, while a position is open
C19_Witness ==
  /\ call.op = "analyzeOnly"
  /\ call.pc = "done"
  /\ call.out.wouldTrade
  /\ call.out.amount > 0
  /\ Len(posOrder) > 0
  /\ Day(now) # rm.currentDay

\* C20: determineLeverage returns the boosted tier (min(4, max leverage))
\* exactly when score >= 9 and atrPct is present and below 2, the floor tier
\* (2) whenever atrPct is above 3 whatever the score, and the configured
\* default otherwise; a missing atrPct never gives the boosted tier.
C20_LeverageTiers ==
  (call.op = "determineLeverage" /\ call.pc = "done")
    => LET boost == call.score >= 9 /\ call.atrPct # NoAtr /\ call.atrPct < 200
           floor == call.atrPct # NoAtr /\ call.atrPct > 300
       IN  /\ call.out.tier = "boost" <=> boost
           /\ boost => call.out.leverage = Min(4, call.maxLeverage)
           /\ floor => (call.out.tier = "floor" /\ call.out.leverage = 2)
           /\ (~boost /\ ~floor)
                => (call.out.tier = "default" /\ call.out.leverage = call.defaultLeverage)
           /\ call.atrPct = NoAtr => call.out.tier # "boost"

\* the boosted tier was returned, capped by a max leverage below 4
C20_Witness ==
  /\ call.op = "determineLeverage"
  /\ call.pc = "done"
  /\ call.out.tier = "boost"
  /\ call.out.leverage = call.maxLeverage
  /\ call.maxLeverage < 4

\* calculateSLTP has returned
SLTPReturned == call.op = "calculateSLTP" /\ call.pc = "done"

\* C21: for every stop/target pair calculateSLTP returns, the reward:risk
\* ratio |takeProfit - entry| / |entry - stopLoss| is defined and at least
\* risk.min_rr_ratio; the stop is the value it had before the floor check, and
\* the target is moved only when the floor was not met, and then outward.
C21_RewardRiskFloor ==
  SLTPReturned =>
    LET slDist == Abs(call.entryPrice - call.out.stopLoss)
        tpDist == Abs(call.entryPrice - call.out.takeProfit)
        tpBefore == Abs(call.entryPrice - call.out.targetBefore)
    IN  /\ slDist > 0
        /\ tpDist * 10 >= slDist * call.minRR10
        /\ call.out.stopLoss = call.out.stopBefore
        /\ tpBefore * 10 >= slDist * call.minRR10
             => call.out.takeProfit = call.out.targetBefore
        /\ tpDist >= tpBefore

\* calculatePositionSize has returned
SizeReturned == call.op = "calculatePositionSize" /\ call.pc = "done"

\* the call of the worked example: balance 100, entry 50000, stop 49000,
\* riskPct 3 and leverage 2
WorkedExample ==
  /\ call.op = "calculatePositionSize"
  /\ call.balance = 100 /\ call.entryPrice = 50000 /\ call.stopLossPrice = 49000
  /\ call.maxRiskPct = 3 /\ call.leverage = 2

\* C22: in the worked example the risk budget is 3; if the margin cap is not
\* below the uncapped margin of 75, margin is 75, notional 150 and quantity
\* 0.003; otherwise margin equals the cap and quantity cap x leverage / entry.
C22_WorkedExample ==
  (SizeReturned /\ WorkedExample) =>
    LET cap == (call.balance * call.maxMarginPct) \div 100
    IN  /\ call.out.ok
        /\ call.out.riskUSD = 3
        /\ IF cap < 75
           THEN /\ call.out.margin = cap
                /\ call.out.amount = (cap * call.leverage * 1000) \div call.entryPrice
           ELSE /\ call.out.margin = 75
                /\ call.out.positionValue = 150
                /\ call.out.amount = 3

\* the worked example under the default cap of 50%: margin 50, quantity 0.002
C22_Witness ==
  /\ SizeReturned /\ WorkedExample
  /\ call.maxMarginPct = MaxMarginUsagePct
  /\ call.out.margin = 50
  /\ call.out.amount = 2

\* C29: for every balance, entry, stopLoss different from entry and leverage,
\* calculatePositionSize returns margin <= balance x maxMarginPct, notional =
\* margin x leverage and quantity = notional / entry, and the loss at the stop
\* (notional x |entry - stopLoss| / entry) does not exceed balance x riskPct.
C29_SizingWithinBudget ==
  (SizeReturned /\ call.stopLossPrice # call.entryPrice) =>
    LET dist == Abs(call.entryPrice - call.stopLossPrice)
        budget == (call.balance * call.maxRiskPct) \div 100
    IN  /\ call.out.ok
        /\ call.out.margin * 100 <= call.balance * call.maxMarginPct
        /\ call.out.positionValue = call.out.margin * call.leverage
        /\ call.out.amount = (call.out.positionValue * 1000) \div call.entryPrice
        /\ call.out.positionValue * dist <= budget * call.entryPrice

\* a sizing that the margin cap cut down: the margin is the cap and the loss
\* at the stop lies under the risk budget
C29_Witness ==
  /\ SizeReturned
  /\ call.stopLossPrice # call.entryPrice
  /\ call.out.margin * 100 = call.balance * call.maxMarginPct
  /\ call.out.positionValue * Abs(call.entryPrice - call.stopLossPrice)
       < ((call.balance * call.maxRiskPct) \div 100) * call.entryPrice

\* canTrade has returned
GateReturned == call.op = "canTrade" /\ call.pc = "done"

\* C23: called with a context that gives balance, margin and rrRatio, canTrade
\* returns false when the margin exceeds balance x maxMarginPct and returns
\* false when rrRatio is below risk.min_rr_ratio, whatever the three values.
C23_GateDeniesMarginAndRatio ==
  GateReturned =>
    /\ call.cfg.margin * 100 > call.cfg.balance * MaxMarginUsagePct => ~call.out
    /\ call.cfg.rr10 < MinRR10 => ~call.out

\* kellyOptimalSize has returned
KellyReturned == call.op = "kellyOptimalSize" /\ call.pc = "done"

\* balance x h, with h half of winRate - lossRate / profitFactor clamped to
\* [0, 0.10], for the win rate wins / total and the profit factor profit /
\* loss of the rows themselves: without a profit the fraction is 0 (lossRate
\* > 0 over a factor of 0), without a loss it is half the win rate
HalfKellyOf(balance, t) ==
  LET num == t.wins * t.profit - (t.total - t.wins) * t.loss
      den == 2 * t.total * t.profit
  IN  IF t.profit = 0 \/ num <= 0 THEN 0
      ELSE IF num * 10 >= den THEN balance \div 10
      ELSE (balance * num) \div den

\* C24: kellyOptimalSize(balance) returns 3% of balance with fewer than 10
\* historical outcomes, and otherwise balance x half-Kelly clamped to
\* [0, 0.10], computed from the empirical win rate and profit factor, a win
\* rate of 0 and an undefined profit factor included.
C24_KellyAdvisory ==
  KellyReturned =>
    call.out = IF call.trades.total < 10 THEN (call.balance * 3) \div 100
               ELSE HalfKellyOf(call.balance, call.trades)

\* C25: open positions survive a process restart: every position open before
\* the restart is in the active set after it, in the same order and with the
\* same symbol, direction, entry, quantity, leverage, stop, target and flags
\* (so that it is monitored again and its symbol is not opened a second time).
C25_PositionsSurviveRestart ==
  [][ Restart
        => /\ posOrder' = posOrder
           /\ \A s \in CoinSet :
                positions[s] # 0
                  => /\ positions'[s] # 0
                     /\ objs'[positions'[s]] = objs[positions[s]] ]_vars

\* C26: the daily P&L accumulator survives a process restart: after a restart
\* dailyPnL is the sum of the outcomes recorded earlier on the same local day
\* (what the accumulator held, 0 if it was last written on an earlier day).
C26_DailyPnLSurvivesRestart ==
  [][ Restart
        => rm'.dailyPnL = IF rm.currentDay = Day(now) THEN rm.dailyPnL ELSE 0 ]_vars

\* C27: across any interleaving of scan passes (a timer tick during a pass
\* that is awaiting the gateway, or stop() and start() during a pass) no
\* opening order is sent for a symbol whose position is open or for which
\* another opening order is in flight.
C27_NoSecondOpeningOrder ==
  [][ \A r \in ScanIds :
        OrderSent(r)
          => /\ positions[Coins[scans[r].i]] = 0
             /\ \A q \in ScanIds \ {r} :
                  ~(scans[q].pc = "order" /\ scans[q].i = scans[r].i) ]_vars

\* a context that gives balance, margin and rrRatio
FullContext(cfg) == cfg.balance # 0 /\ cfg.margin # 0 /\ cfg.rr10 # 0

\* scan call r enters openPosition and the gate lets it through
GatePassed(r) == scans[r].pc = "analysis" /\ scans'[r].pc = "balance"

\* C28: every admission is gated on all conditions of the risk gate: the gate
\* is asked with a full context, and no position is opened whose margin exceeds
\* balance x risk.max_margin_usage_pct, whose reward:risk is below
\* risk.min_rr_ratio, or while dailyPnL breaches the daily loss limit measured
\* against the current balance.
C28_AdmissionFullyGated ==
  [][ \A r \in ScanIds :
        /\ GatePassed(r) => FullContext(OpenContext)
        /\ OrderConfirmed(r)
             => LET pos == NewPosition(scans[r].sig, scans[r].balance)
                    slDist == Abs(pos.entryPrice - pos.stopLoss)
                    tpDist == Abs(pos.entryPrice - pos.takeProfit)
                IN  /\ Sizing(scans[r]).margin * 100 <= scans[r].balance * MaxMarginUsagePct
                    /\ tpDist * 10 >= slDist * MinRR10
                    /\ ~(rm.dailyPnL * 100 < -(scans[r].balance * MaxDailyLossPct)) ]_vars

\* openPosition of scan call r awaits getBalance with a signal for which
\* calculateSLTP puts the stop on the entry price
ZeroStop(r) ==
  /\ scans[r].pc = "balance"
  /\ calculateSLTP(scans[r].sig.dir, EntryPrice, scans[r].sig.atr,
                   scans[r].sig.boll).stopLoss = EntryPrice

\* C30: when the computed stop-loss equals the entry price (ATR of 0),
\* calculatePositionSize returns no sizing and openPosition sends no order,
\* adds no position and records no trade: the pass goes on to a later coin or
\* ends.
C30_ZeroStopOpensNothing ==
  [][ \A r \in ScanIds :
        (ZeroStop(r) /\ OpenBalance(r))
          => /\ \A balance \in Balances :
                  ~calculatePositionSize(balance, EntryPrice, EntryPrice,
                       determineLeverage(scans[r].sig.score, scans[r].sig.atrPct100)).ok
             /\ scans'[r].pc \notin {"leverage", "order", "notify"}
             /\ scans'[r].pc = "idle" \/ scans'[r].i > scans[r].i
             /\ positions' = positions
             /\ posOrder' = posOrder
             /\ objs' = objs
             /\ nextId' = nextId ]_vars

\* the open of BTC ended without a sizing, nothing was opened and the pass
\* went on to ETH
C30_Witness ==
  \E r \in ScanIds :
    /\ scans[r].unsized
    /\ scans[r].pc = "analysis"
    /\ scans[r].i = 2
    /\ positions[Coins[1]] = 0
    /\ nextId = 1

\* determineLeverage has returned
LeverageReturned == call.op = "determineLeverage" /\ call.pc = "done"

\* C31: for every score, atrPct and configuration of futures.default_leverage
\* and futures.max_leverage, the leverage determineLeverage returns lies within
\* the configured bounds: it is at least 1 and never exceeds
\* futures.max_leverage.
C31_LeverageWithinBounds ==
  LeverageReturned =>
    /\ call.out.leverage >= 1
    /\ call.out.leverage <= call.maxLeverage

\* a canTrade call that does not trip the breaker (lockBot writes a risk event)
QuietCanTrade == CanTradeCall /\ db'.riskEvents = db.riskEvents

\* C32: canTrade is side-effect-free except for triggering the breaker: a call
\* that does not trip the breaker leaves dailyPnL and the lock settings
\* (bot.locked, bot.lock_until) unchanged.
C32_CanTradeHasNoSideEffect ==
  [][QuietCanTrade =>
       /\ rm'.dailyPnL = rm.dailyPnL
       /\ db'.locked = db.locked
       /\ db'.lockUntil = db.lockUntil]_vars

\* C33: dailyPnL is reset at the local-day boundary: once an outcome has been
\* recorded during the current local day, dailyPnL equals the sum of the
\* outcomes recorded during that day, so the first outcome recorded after
\* midnight is added to 0 and not to the previous day's total.
C33_DailyPnLIsTodaysSum ==
  (call.op = "recordPnL" /\ call.day = Day(now)) => rm.dailyPnL = call.today

\* the exit checks of a monitor tick end in a close attempt or a partial close
ExitStep(m) == mons[m].pc = "ticker" /\ mons'[m].pc \in {"closeOrder", "partialOrder"}

\* C34: within one monitor tick the exit conditions of a position are
\* evaluated in the order stop-loss, take-profit, trailing stop, partial close:
\* a tick in which the stop-loss condition holds closes with reason STOP LOSS
\* whatever other conditions hold, take-profit comes next, and a tick that
\* attempts a stop-loss or take-profit close leaves the position object as it
\* was (no trailing activation, no ratchet, no partial close); an object that
\* another call replaced in the active set meanwhile may be dropped.
C34_ExitOrder ==
  [][\A m \in MonIds :
       ExitStep(m) =>
         LET o == objs[mons[m].obj]
             p == mons'[m].price
             next == mons'[m]
         IN  /\ hitSL(o, p) => next.pc = "closeOrder" /\ next.reason = "STOP LOSS"
             /\ (~hitSL(o, p) /\ hitTP(o, p)) =>
                  next.pc = "closeOrder" /\ next.reason = "TAKE PROFIT"
             /\ (next.pc = "closeOrder" /\ next.reason \in {"STOP LOSS", "TAKE PROFIT"}) =>
                  /\ objs'[mons[m].obj] \in {o, NoObj}
                  /\ objs'[next.obj] = objs[next.obj]
                  /\ IF next.reason = "STOP LOSS" THEN hitSL(o, p) ELSE hitTP(o, p)
             /\ next.pc = "partialOrder" => ~hitTrail(Trail(o, p), p)]_vars

\* a stop-loss close is being attempted at a price at which the trailing stop
\* of the position is hit as well
C34_Witness ==
  \E m \in MonIds :
    /\ mons[m].pc = "closeOrder" /\ mons[m].reason = "STOP LOSS"
    /\ LET o == objs[mons[m].obj]
           p == mons[m].price
       IN  hitSL(o, p) /\ hitTrail(Trail(o, p), p)

\* calculateSignalScore has returned
ScoreReturned == call.op = "calculateSignalScore" /\ call.pc = "done"

\* C35: for every combination of timeframe snapshots, calculateSignalScore
\* returns an integer score in 0..10 equal to the sum of the seven layer
\* scores, each within its cap (trend, RSI and MACD at most 2, Bollinger, EMA,
\* volume and entry timing at most 1), and returns score 0 with no direction
\* when neither the base nor the slow timeframe gives a buy or sell signal.
C35_ScoreIsCappedSum ==
  ScoreReturned =>
    LET out == call.out
        l == out.layers
    IN  /\ out.score \in 0..10
        /\ out.score = LayerSum(l)
        /\ l.trend \in 0..2 /\ l.rsi \in 0..2 /\ l.macd \in 0..2
        /\ l.bollinger \in 0..1 /\ l.ema \in 0..1 /\ l.volume \in 0..1
        /\ l.entry_timing \in 0..1
        /\ (\A w \in {"buy", "sell"} :
              ~Includes(call.mtf.sig1h, w) /\ ~Includes(call.mtf.sig4h, w))
             => out.score = 0 /\ out.direction = "none"

\* every layer at its cap: the score is 10
C35_Witness == ScoreReturned /\ call.out.score = 10 /\ call.out.direction = "short"

\* the base timeframe has indicators and gives a direction, the slow timeframe
\* has no indicators
SlowMissing ==
  /\ call.mtf.ind1h /\ ~call.mtf.ind4h
  /\ SignalDirection(call.mtf.sig1h, call.mtf.sig4h) # "none"
  /\ Includes(call.mtf.sig1h, "buy") \/ Includes(call.mtf.sig1h, "sell")

\* C36: missing data for a single layer or timeframe scores only the affected
\* layers as 0: when the slow timeframe has no indicators but the base
\* timeframe gives a direction, the RSI, MACD, Bollinger, EMA, volume and
\* entry-timing layers are still computed for that direction and counted in
\* the score.
C36_PartialDataTolerated ==
  (ScoreReturned /\ SlowMissing) =>
    LET d == SignalDirection(call.mtf.sig1h, call.mtf.sig4h)
        l == call.out.layers
    IN  /\ call.out.direction = d
        /\ l.rsi = RsiLayer(d, call.mtf.rsi)
        /\ l.macd = MacdLayer(d, call.mtf.macd)
        /\ l.bollinger = BollingerLayer(d, call.mtf.bollinger)
        /\ l.ema = EmaLayer(d, call.mtf.ema)
        /\ l.volume = VolumeLayer(call.mtf.ratio)
        /\ l.entry_timing = EntryTimingLayer(d, call.mtf.tf15m)
        /\ call.out.score >= l.rsi + l.macd + l.bollinger + l.ema + l.volume + l.entry_timing

\* the notification calls of openPosition in scan call r are over
OpenNotified(r) == scans[r].pc = "notify" /\ scans'[r].pc # "notify"

\* the notification calls of closePosition in monitor call m are over
CloseNotified(m) == mons[m].pc = "closeNotify" /\ mons'[m].pc # "closeNotify"

\* C37: the success, failure or exception of a notification call never
\* changes the lifecycle outcome: when the notification of a confirmed opening
\* order is over the position is in the active set, when the notifications of
\* a confirmed close order are over the position has left the active set, and
\* its outcome is recorded exactly once.
C37_NotifierDoesNotChangeOutcome ==
  [][ /\ \A r \in ScanIds :
           OpenNotified(r) => positions'[Coins[scans[r].i]] # 0
      /\ \A m \in MonIds :
           CloseNotified(m) => /\ positions'[mons[m].sym] # mons[m].obj
                               /\ objs[mons[m].obj].records = 1
      /\ \A k \in ObjIds : objs'[k].records <= 1 ]_vars

\* C38: every stop/target pair returned by calculateSLTP lies on the correct
\* sides of the entry price, for every ATR > 0 and every position of the
\* Bollinger bands relative to the entry: stopLoss < entry < takeProfit for a
\* long, takeProfit < entry < stopLoss for a short.
C38_StopAndTargetStraddleEntry ==
  (SLTPReturned /\ call.atr > 0) =>
    IF call.direction = "long"
    THEN call.out.stopLoss < call.entryPrice /\ call.entryPrice < call.out.takeProfit
    ELSE call.out.takeProfit < call.entryPrice /\ call.entryPrice < call.out.stopLoss


\* C39: the P&L reported to the risk manager for a position equals the
\* realized P&L of all of its reducing fills: the outcome passed to recordPnL
\* (and added to the engine's dailyPnL) at the final close is the P&L of the
\* final fill plus the P&L realized by the partial close.
C39_ReportedIsRealized ==
  [][\A m \in MonIds :
       (mons[m].pc = "closeOrder" /\ mons'[m].pc = "closeBalance") =>
         LET o == objs[mons[m].obj]
             total == o.realized + ReducePnL(o, o.amount, mons[m].price)
         IN  /\ rm'.dailyPnL - rm.dailyPnL = total
             /\ eng'.dailyPnL - eng.dailyPnL = total]_vars

\* the engine's own daily-loss check of monitor call m locks the bot
EngineLocks(m) ==
  /\ mons[m].pc = "closeBalance" /\ mons'[m].pc = "closeNotify"
  /\ ~db.locked /\ db'.locked

\* C40: after a manual unlock the bot is locked again only when the outcomes
\* recorded after the unlock breach the daily loss limit: the engine's
\* dailyPnL and the risk manager's dailyPnL (0 at the unlock) agree after every
\* operation, and the engine's check locks the bot only on a total of the risk
\* manager that breaches the limit for some balance.
C40_RelockOnlyOnNewBreach ==
  [][ /\ eng'.dailyPnL = rm'.dailyPnL
      /\ \A m \in MonIds :
           EngineLocks(m) =>
             \E b \in Balances : rm.dailyPnL * 100 < -(b * MaxDailyLossPct) ]_vars

====
